---- MODULE Spec2Model ----
(***************************************************************************)
(* llm-docs-generator: the document tree (DocNode IR), the OpenRef and     *)
(* Markdown adapters that build it, and the UniversalFormatter that        *)
(* renders it into hierarchically numbered text files.                     *)
(*                                                                         *)
(* Text is a sequence of one-character strings, so that concatenation,     *)
(* substring search and line structure are what they are in the program.   *)
(* The fixed phrases of the two file headers are single elements.          *)
(***************************************************************************)
EXTENDS Integers, Sequences, FiniteSets, TLC

VARIABLES
  sourceKind,   \* which entry point produced the tree: "openref", "mdfile", "mddir", "block"
  specData,     \* parsed OpenRef SpecData {info, operations}
  categoryMap,  \* optional Map<string, string[]>: [defined, entries = <<<<name, ids>>, ...>>]
  mdFiles,      \* the markdown files of the source: sequence of [path, tokens]
  options,      \* FormatterOptions
  tree,         \* the DocNode handed to the formatter
  pc,           \* position of the conversion / generateAll call
  dirMade,      \* mkdir(outputDir, {recursive: true}) has succeeded
  files,        \* file system below outputDir: path -> content
  ioLog,        \* the writeFile calls that succeeded, in order
  catIdx,       \* generateModularDocs: index of the next category of the for-of loop
  today,        \* new Date().toLocaleDateString('en-US', ...) at the time of the call
  block,        \* a ContentBlock handed to formatContent (block specification)
  rendered,     \* what formatContent returned for it
  parsedDocs,   \* parseDirectory: the result of each file's parse, NoDoc while it is pending
  doneOrder,    \* parseDirectory: the files in the order their parses completed
  pos,          \* buildSections: number of tokens the loop has consumed
  build,        \* buildSections: rootSections/children, stack and currentContent
  sections,     \* what buildSections returned
  h2AsCategory, \* the flag markdownToDocNode hands to convertSection
  sectionNodes, \* sections.map(convertSection)
  rawContent,   \* cleanDocCContent: the text of the file as read
  cleaned,      \* cleanDocCContent: the text it returned
  parsers,      \* FormatDetector.parsers, in registration order
  sourcePath,   \* detect: the path
  hint,         \* detect: the hint, "" when omitted
  fsEntry,      \* detect: what the file system holds at the path
  probes,       \* detect: the parsers whose detect was invoked, in order of invocation
  detected      \* detect: the outcome, [status, format, message]

pipeVars == <<sourceKind, specData, categoryMap, mdFiles, options, tree, pc, dirMade,
              files, ioLog, catIdx, today, block, rendered>>
dirVars == <<parsedDocs, doneOrder>>
mdVars == <<pos, build, sections, h2AsCategory, sectionNodes, rawContent, cleaned>>
detectVars == <<parsers, sourcePath, hint, fsEntry, probes, detected>>

vars == <<pipeVars, dirVars, mdVars, detectVars>>

-----------------------------------------------------------------------------
(* Generic helpers                                                         *)

SeqsUpTo(S, n) == UNION {[1..k -> S] : k \in 0..n}

Min(a, b) == IF a < b THEN a ELSE b

RECURSIVE Join(_)
\* parts.join(''): concatenation of a sequence of texts
Join(parts) == IF parts = <<>> THEN <<>> ELSE Head(parts) \o Join(Tail(parts))

RECURSIVE Repeat(_, _)
\* String.prototype.repeat
Repeat(c, n) == IF n <= 0 THEN <<>> ELSE <<c>> \o Repeat(c, n - 1)

\* String.prototype.includes
Includes(s, p) ==
  \E i \in 1..(Len(s) - Len(p) + 1) : SubSeq(s, i, i + Len(p) - 1) = p

EndsWith(s, p) ==
  Len(s) >= Len(p) /\ SubSeq(s, Len(s) - Len(p) + 1, Len(s)) = p

Digits == <<"0", "1", "2", "3", "4", "5", "6", "7", "8", "9">>

RECURSIVE NumToText(_)
\* how a number prints in a template string or in Array.join
NumToText(n) ==
  IF n < 10 THEN <<Digits[n + 1]>> ELSE NumToText(n \div 10) \o <<Digits[(n % 10) + 1]>>

RECURSIVE JoinWith(_, _)
\* numbers.join('.')
JoinWith(nums, sep) ==
  IF nums = <<>> THEN <<>>
  ELSE IF Len(nums) = 1 THEN NumToText(nums[1])
  ELSE NumToText(nums[1]) \o sep \o JoinWith(Tail(nums), sep)

EmptyMap == [k \in {} |-> k]

-----------------------------------------------------------------------------
(* core/models.ts                                                          *)

ROOT == "root"
CATEGORY == "category"
SECTION == "section"
OPERATION == "operation"
ITEM == "item"
DocNodeType == {ROOT, CATEGORY, SECTION, OPERATION, ITEM}

PROSE == "prose"
CODE == "code"
DATA == "data"
ContentBlockType == {PROSE, CODE, DATA}

\* an options object of createDocNode with every field left out
NoNodeOptions == [description |-> <<>>, content |-> <<>>, children |-> <<>>, metadata |-> EmptyMap]

createDocNode(type, id, title, opts) ==
  [type |-> type, id |-> id, title |-> title,
   description |-> opts.description, content |-> opts.content,
   children |-> opts.children, metadata |-> opts.metadata]

\* language = <<>> and annotations = EmptyMap stand for the fields left undefined
createContentBlock(type, content, language, annotations) ==
  [type |-> type, content |-> content, language |-> language, annotations |-> annotations]

-----------------------------------------------------------------------------
(* parsers/openref/adapter.ts                                              *)

\* the substring markers of inferLanguage
KwConst == <<"c", "o", "n", "s", "t", " ">>
KwLet == <<"l", "e", "t", " ">>
KwAsync == <<"a", "s", "y", "n", "c", " ">>
KwFunc == <<"f", "u", "n", "c", " ">>
KwDef == <<"d", "e", "f", " ">>
KwImport == <<"i", "m", "p", "o", "r", "t", " ">>
KwFrom == <<"f", "r", "o", "m", " ">>
KwPublicClass == <<"p", "u", "b", "l", "i", "c", " ", "c", "l", "a", "s", "s">>
KwPrivateVal == <<"p", "r", "i", "v", "a", "t", "e", " ", "v", "a", "l">>
KwClass == <<"c", "l", "a", "s", "s", " ">>
KwUsing == <<"u", "s", "i", "n", "g", " ">>
KwVoid == <<"v", "o", "i", "d", " ">>
KwFuture == <<"F", "u", "t", "u", "r", "e", "<">>

\* language tags are single elements of the text
inferLanguage(code) ==
  IF Includes(code, KwConst) \/ Includes(code, KwLet) \/ Includes(code, KwAsync)
    THEN <<"javascript">>
  ELSE IF Includes(code, KwFunc) \/ (Includes(code, KwLet) /\ Includes(code, <<":">>))
    THEN <<"swift">>
  ELSE IF Includes(code, KwDef) \/ (Includes(code, KwImport) /\ Includes(code, KwFrom))
    THEN <<"python">>
  ELSE IF Includes(code, KwPublicClass) \/ Includes(code, KwPrivateVal)
    THEN <<"kotlin">>
  ELSE IF (Includes(code, KwClass) /\ Includes(code, <<"{">>)) \/ Includes(code, KwUsing)
    THEN <<"csharp">>
  ELSE IF Includes(code, KwVoid) \/ Includes(code, KwFuture)
    THEN <<"dart">>
  ELSE <<"code">>

\* a variant that pushes the code block before the description
exampleContent_codeFirst(example) ==
  (IF example.code # <<>>
     THEN <<createContentBlock(CODE, example.code, inferLanguage(example.code), EmptyMap)>>
     ELSE <<>>)
  \o (IF example.description # <<>>
        THEN <<createContentBlock(PROSE, example.description, <<>>, EmptyMap)>> ELSE <<>>)
  \o (IF example.dataSql # <<>>
        THEN <<createContentBlock(DATA, example.dataSql, <<"sql">>, [type |-> <<"schema">>])>>
        ELSE <<>>)
  \o (IF example.response # <<>>
        THEN <<createContentBlock(DATA, example.response, <<"json">>, [type |-> <<"response">>])>>
        ELSE <<>>)

\* the blocks of an example, each pushed only when its field is a non-empty string
exampleContent(example) ==
  (IF example.description # <<>>
     THEN <<createContentBlock(PROSE, example.description, <<>>, EmptyMap)>> ELSE <<>>)
  \o (IF example.code # <<>>
        THEN <<createContentBlock(CODE, example.code, inferLanguage(example.code), EmptyMap)>>
        ELSE <<>>)
  \o (IF example.dataSql # <<>>
        THEN <<createContentBlock(DATA, example.dataSql, <<"sql">>, [type |-> <<"schema">>])>>
        ELSE <<>>)
  \o (IF example.response # <<>>
        THEN <<createContentBlock(DATA, example.response, <<"json">>, [type |-> <<"response">>])>>
        ELSE <<>>)

convertExample(example) ==
  createDocNode(ITEM, example.id, example.name,
    [description |-> example.description,
     content |-> exampleContent(example),
     children |-> <<>>,
     metadata |-> [exampleId |-> example.id, isSpotlight |-> example.isSpotlight]])

operationContent(operation) ==
  (IF operation.description # <<>>
     THEN <<createContentBlock(PROSE, operation.description, <<>>, EmptyMap)>> ELSE <<>>)
  \o (IF operation.notes # <<>>
        THEN <<createContentBlock(PROSE, operation.notes, <<>>, EmptyMap)>> ELSE <<>>)

\* a variant that lists the examples last to first
operationChildren_reversed(operation) ==
  [j \in 1..Len(operation.examples) |->
     convertExample(operation.examples[Len(operation.examples) + 1 - j])]

\* operation.examples.map(convertExample)
operationChildren(operation) ==
  [j \in 1..Len(operation.examples) |-> convertExample(operation.examples[j])]

convertOperation(operation) ==
  createDocNode(OPERATION, operation.id, operation.title,
    [description |-> operation.description,
     content |-> operationContent(operation),
     children |-> operationChildren(operation),
     metadata |-> [operationId |-> operation.id, notes |-> operation.notes]])

\* operationMap.get(opId): the Map built from [op.id, op] pairs keeps, for an id
\* that occurs twice, the operation set last; 0 stands for undefined
operationMapGet(operations, opId) ==
  LET hits == {i \in 1..Len(operations) : operations[i].id = opId}
  IN IF hits = {} THEN 0 ELSE CHOOSE i \in hits : \A j \in hits : j <= i

RECURSIVE collectOperations(_, _)
\* the inner loop of convertWithCategories: the operations of the ids that resolve
collectOperations(operations, operationIds) ==
  IF operationIds = <<>> THEN <<>>
  ELSE LET i == operationMapGet(operations, Head(operationIds))
       IN (IF i # 0 THEN <<operations[i]>> ELSE <<>>)
          \o collectOperations(operations, Tail(operationIds))

categoryNode(categoryName, ops) ==
  createDocNode(CATEGORY, categoryName, categoryName,
    [description |-> <<>>, content |-> <<>>,
     children |-> [i \in 1..Len(ops) |-> convertOperation(ops[i])],
     metadata |-> EmptyMap])

\* a variant that keeps a category none of whose ids resolve
categoryEntry_keepEmpty(operations, entry) ==
  <<categoryNode(entry[1], collectOperations(operations, entry[2]))>>

\* one pass of the outer loop: if (ops.length === 0) continue; else push the node
categoryEntry(operations, entry) ==
  LET ops == collectOperations(operations, entry[2])
  IN IF Len(ops) = 0 THEN <<>> ELSE <<categoryNode(entry[1], ops)>>

RECURSIVE convertEntries(_, _)
\* the outer loop of convertWithCategories over categoryMap.entries()
convertEntries(operations, entries) ==
  IF entries = <<>> THEN <<>>
  ELSE categoryEntry(operations, Head(entries)) \o convertEntries(operations, Tail(entries))

convertWithCategories(spec, catMap) == convertEntries(spec.operations, catMap.entries)

openRefToDocNode(spec, catMap) ==
  createDocNode(ROOT, spec.info.id, spec.info.title,
    [description |-> spec.info.description,
     content |-> <<>>,
     children |->
       IF catMap.defined /\ Len(catMap.entries) > 0
         THEN convertWithCategories(spec, catMap)
         ELSE [k \in 1..Len(spec.operations) |-> convertOperation(spec.operations[k])],
     metadata |-> [format |-> <<"openref">>, sdk |-> spec.info.id,
                   title |-> spec.info.title, specUrl |-> spec.info.specUrl]])

-----------------------------------------------------------------------------
(* core/universal-formatter.ts                                             *)

NEWLINE == <<"\n">>
DOUBLE_NEWLINE == <<"\n", "\n">>

MaxHeadingLevel == 4

\* getHeading: the type is not looked at
\* a variant without the cap on the heading level
getHeading_uncapped(type, depth) == Repeat("#", depth + 1)

getHeading(type, depth) == Repeat("#", Min(depth + 1, MaxHeadingLevel))

\* numbers.join('.')
numberString(numbers) == JoinWith(numbers, <<".">>)

\* `${heading} ${numberString}. ${node.title}`, DOUBLE_NEWLINE
headingLine(node, numbers) ==
  getHeading(node.type, Len(numbers)) \o <<" ">> \o numberString(numbers)
    \o <<".", " ">> \o node.title \o DOUBLE_NEWLINE

\* a variant that prints how many tags the node has after its description
descriptionPart_tagCount(node) ==
  (IF node.description # <<>> THEN node.description \o DOUBLE_NEWLINE ELSE <<>>)
    \o NumToText(Cardinality(DOMAIN node.metadata))

\* if (node.description) parts.push(node.description, DOUBLE_NEWLINE)
descriptionPart(node) ==
  IF node.description # <<>> THEN node.description \o DOUBLE_NEWLINE ELSE <<>>

\* content.language || 'text'
codeLang(content) == IF content.language # <<>> THEN content.language ELSE <<"text">>

\* content.annotations?.get('type') || 'data'
dataType(content) ==
  IF "type" \in DOMAIN content.annotations /\ content.annotations["type"] # <<>>
    THEN content.annotations["type"] ELSE <<"data">>

\* the backquote character (the lexer accepts none inside a string)
Backquote == "<bq>"

\* the three backquotes of a code fence
Fence == <<Backquote, Backquote, Backquote>>

formatProse(content) == content.content \o DOUBLE_NEWLINE

\* a variant that drops a newline the body of a code block ends with
formatCode_trimmed(content) ==
  LET body == content.content
      bare == IF body # <<>> /\ body[Len(body)] = "\n"
                THEN SubSeq(body, 1, Len(body) - 1) ELSE body
  IN Fence \o codeLang(content) \o NEWLINE \o bare \o NEWLINE \o Fence \o DOUBLE_NEWLINE

formatCode(content) ==
  Fence \o codeLang(content) \o NEWLINE
    \o content.content \o NEWLINE
    \o Fence \o DOUBLE_NEWLINE

\* a variant that ends the data block without the blank line
formatData_noBlankLine(content) ==
  NEWLINE \o <<"/", "/", " ">> \o dataType(content) \o NEWLINE
    \o <<"/", "*">> \o NEWLINE
    \o content.content \o NEWLINE
    \o <<"*", "/">> \o NEWLINE

formatData(content) ==
  NEWLINE \o <<"/", "/", " ">> \o dataType(content) \o NEWLINE
    \o <<"/", "*">> \o NEWLINE
    \o content.content \o NEWLINE
    \o <<"*", "/">> \o NEWLINE \o NEWLINE

\* a type outside the switch pushes nothing
formatContent(content) ==
  IF content.type = PROSE THEN formatProse(content)
  ELSE IF content.type = CODE THEN formatCode(content)
  ELSE IF content.type = DATA THEN formatData(content)
  ELSE <<>>

\* for (const content of node.content) parts.push(this.formatContent(content))
contentParts(node) == Join([i \in 1..Len(node.content) |-> formatContent(node.content[i])])

\* a variant that counts the children from zero
childNumbers_zeroBased(numbers, childNum) == Append(numbers, childNum - 1)

\* [...numbers, childNum]
childNumbers(numbers, childNum) == Append(numbers, childNum)

\* the number path a ROOT node hands to its child
rootChildNumbers(numbers, childNum) == <<childNum>>

\* a variant that renders the children before the node's own blocks
nodeParts_childrenFirst(heading, description, content, children) ==
  heading \o description \o children \o content

\* the order in which formatNode pushes the parts of a node that is not ROOT
nodeParts(heading, description, content, children) ==
  heading \o description \o content \o children

RECURSIVE formatNode(_, _)
formatNode(node, numbers) ==
  IF node.type = ROOT
    THEN Join([i \in 1..Len(node.children) |->
                 formatNode(node.children[i], rootChildNumbers(numbers, i))])
    ELSE nodeParts(headingLine(node, numbers), descriptionPart(node), contentParts(node),
                   Join([i \in 1..Len(node.children) |->
                           formatNode(node.children[i], childNumbers(numbers, i))]))

\* this.options.filenamePrefix || 'documentation'
filenamePrefix(opts) ==
  IF opts.filenamePrefix # <<>> THEN opts.filenamePrefix
  ELSE <<"d", "o", "c", "u", "m", "e", "n", "t", "a", "t", "i", "o", "n">>

LlmsTxt == <<"-", "l", "l", "m", "s", ".", "t", "x", "t">>

\* `${this.options.outputDir}/${prefix}-full-llms.txt`
fullDocPath(opts) ==
  opts.outputDir \o <<"/">> \o filenamePrefix(opts) \o <<"-", "f", "u", "l", "l">> \o LlmsTxt

\* `${this.options.outputDir}/${prefix}-${category.id}-llms.txt`
categoryPath(opts, category) ==
  opts.outputDir \o <<"/">> \o filenamePrefix(opts) \o <<"-">> \o category.id \o LlmsTxt

\* this.options.title || this.root.title
docTitle(root, opts) == IF opts.title # <<>> THEN opts.title ELSE root.title

\* this.root.metadata.get('format') || 'unknown'
formatTag(root) ==
  IF "format" \in DOMAIN root.metadata /\ root.metadata["format"] # <<>>
    THEN root.metadata["format"] ELSE <<"unknown">>

generateHeader(root, opts, date) ==
  <<"<SYSTEM>">>
    \o (IF opts.systemPrompt # <<>> THEN opts.systemPrompt
        ELSE <<"This is the complete developer documentation for ">>
               \o docTitle(root, opts) \o <<".">>)
    \o <<"</SYSTEM>">> \o DOUBLE_NEWLINE
    \o (IF opts.includeMetadata # FALSE
          THEN <<"<!-- Format: ">> \o formatTag(root) \o <<", Generated: ">> \o date
                 \o <<" -->">> \o DOUBLE_NEWLINE
          ELSE <<>>)
    \o <<"#", " ">> \o docTitle(root, opts) \o DOUBLE_NEWLINE

generateCategoryHeader(root, opts, category) ==
  <<"<SYSTEM>">> \o <<"This is the developer documentation for ">> \o docTitle(root, opts)
    \o <<" ", "-", " ">> \o category.title \o <<".">> \o <<"</SYSTEM>">> \o DOUBLE_NEWLINE
    \o <<"#", " ">> \o docTitle(root, opts) \o <<" ">> \o category.title
    \o <<" ", "Documentation">> \o DOUBLE_NEWLINE
    \o (IF category.description # <<>> THEN category.description \o DOUBLE_NEWLINE ELSE <<>>)

\* the number path generateFullDoc starts the root with
fullDocNumbers == <<>>

\* a variant in which a category file goes on from a number of its own
categoryNumbers_numbered == <<1>>

\* the number path generateModularDocs starts a category with
categoryNumbers == <<>>

\* the content generateFullDoc writes (streamed or buffered, the same text)
fullDocContent(root, opts, date) ==
  generateHeader(root, opts, date) \o formatNode(root, fullDocNumbers)

\* the content generateModularDocs writes for one category
categoryDocContent(root, opts, category) ==
  generateCategoryHeader(root, opts, category) \o formatNode(category, categoryNumbers)

\* a variant that takes the categories last to first
categoriesOf_reversed(root) ==
  LET found == SelectSeq(root.children, LAMBDA child : child.type = CATEGORY)
  IN [k \in 1..Len(found) |-> found[Len(found) + 1 - k]]

\* a variant without the filter on the child's type
categoriesOf_unfiltered(root) == root.children

\* this.root.children.filter((child) => child.type === DocNodeType.CATEGORY)
categoriesOf(root) == SelectSeq(root.children, LAMBDA child : child.type = CATEGORY)

\* writeFile(filepath, content): creates the file or replaces its content
writeFile(fs, filepath, content) ==
  [p \in DOMAIN fs \cup {filepath} |-> IF p = filepath THEN content ELSE fs[p]]

-----------------------------------------------------------------------------
(* the markdown parser (MarkdownParser)                                    *)

UpperCase == <<"A", "B", "C", "D", "E", "F", "G", "H", "I", "J", "K", "L", "M",
               "N", "O", "P", "Q", "R", "S", "T", "U", "V", "W", "X", "Y", "Z">>
LowerCase == <<"a", "b", "c", "d", "e", "f", "g", "h", "i", "j", "k", "l", "m",
               "n", "o", "p", "q", "r", "s", "t", "u", "v", "w", "x", "y", "z">>

\* String.prototype.toLowerCase on one character
lowerChar(c) ==
  IF \E i \in 1..Len(UpperCase) : UpperCase[i] = c
    THEN LowerCase[CHOOSE i \in 1..Len(UpperCase) : UpperCase[i] = c]
    ELSE c

toLowerCase(text) == [i \in 1..Len(text) |-> lowerChar(text[i])]

\* the character classes \w and \s
IsWordChar(c) ==
  \/ \E i \in 1..Len(UpperCase) : UpperCase[i] = c \/ LowerCase[i] = c
  \/ \E i \in 1..Len(Digits) : Digits[i] = c
  \/ c = "_"

IsSpaceChar(c) == c \in {" ", "\n", "\t", "\r"}

RECURSIVE replaceRuns(_, _, _)
\* text.replace(/X+/g, '-') for the character class X given by the set of its members in text
replaceRuns(text, class, prevIn) ==
  IF text = <<>> THEN <<>>
  ELSE IF Head(text) \in class
    THEN (IF prevIn THEN <<>> ELSE <<"-">>) \o replaceRuns(Tail(text), class, TRUE)
    ELSE <<Head(text)>> \o replaceRuns(Tail(text), class, FALSE)

\* String.prototype.trim
RECURSIVE trimStart(_)
trimStart(text) ==
  IF text # <<>> /\ IsSpaceChar(Head(text)) THEN trimStart(Tail(text)) ELSE text

RECURSIVE trimEnd(_)
trimEnd(text) ==
  IF text # <<>> /\ IsSpaceChar(text[Len(text)])
    THEN trimEnd(SubSeq(text, 1, Len(text) - 1)) ELSE text

trim(text) == trimEnd(trimStart(text))

slugify(text) ==
  LET lower == toLowerCase(text)
      kept == SelectSeq(lower, LAMBDA c : IsWordChar(c) \/ IsSpaceChar(c) \/ c = "-")
      dashed == replaceRuns(kept, {" ", "\n", "\t", "\r"}, FALSE)
      single == replaceRuns(dashed, {"-"}, FALSE)
  IN trim(single)

\* tokenToContent; NoContent stands for null
NoContent == [type |-> "none", content |-> <<>>, language |-> <<>>]

tokenToContent(token) ==
  IF token.type = "code"
    THEN [type |-> "code", content |-> token.text,
          language |-> IF token.lang # <<>> THEN token.lang ELSE <<"text">>]
  ELSE IF token.type \in {"paragraph", "text"}
    THEN [type |-> "prose", content |-> token.text, language |-> <<>>]
  ELSE IF token.type = "blockquote"
    THEN [type |-> "blockquote", content |-> token.text, language |-> <<>>]
  ELSE IF token.type = "space"
    THEN NoContent
  ELSE LET tokenText == IF token.text # <<>> THEN token.text ELSE token.raw
       IN IF trim(tokenText) # <<>>
            THEN [type |-> "prose", content |-> tokenText, language |-> <<>>]
            ELSE NoContent

(* buildSections keeps the sections it has created as objects that the stack  *)
(* and the parents' children arrays refer to.  Here they are the entries of   *)
(* `secs`, in creation order, each with the index of its parent (0: a root    *)
(* section); the stack holds indices into `secs`.                             *)
BuildStart == [secs |-> <<>>, stack |-> <<>>, currentContent |-> <<>>]

\* stack[stack.length - 1].content.push(...currentContent), when there is a top
flushContent(st) ==
  IF Len(st.stack) > 0 /\ Len(st.currentContent) > 0
    THEN [st EXCEPT
            !.secs[st.stack[Len(st.stack)]].content = @ \o st.currentContent,
            !.currentContent = <<>>]
    ELSE st

RECURSIVE popStack_strict(_, _, _)
\* a variant that leaves a section of the same level on the stack
popStack_strict(secs, stack, depth) ==
  IF Len(stack) > 0 /\ secs[stack[Len(stack)]].level > depth
    THEN popStack_strict(secs, SubSeq(stack, 1, Len(stack) - 1), depth)
    ELSE stack

RECURSIVE popStack(_, _, _)
\* while (stack.length > 0 && stack[top].level >= token.depth) stack.pop()
popStack(secs, stack, depth) ==
  IF Len(stack) > 0 /\ secs[stack[Len(stack)]].level >= depth
    THEN popStack(secs, SubSeq(stack, 1, Len(stack) - 1), depth)
    ELSE stack

\* one iteration of the token loop of buildSections
buildStep(st, token) ==
  IF token.type = "heading"
    THEN LET flushed == flushContent(st)
             popped == popStack(flushed.secs, flushed.stack, token.depth)
             section == [level |-> token.depth, title |-> token.text,
                         id |-> slugify(token.text), content |-> <<>>,
                         parent |-> IF Len(popped) > 0 THEN popped[Len(popped)] ELSE 0]
         IN [secs |-> Append(flushed.secs, section),
             stack |-> Append(popped, Len(flushed.secs) + 1),
             currentContent |-> flushed.currentContent]
    ELSE LET content == tokenToContent(token)
         IN IF content # NoContent
              THEN [st EXCEPT !.currentContent = Append(@, content)]
              ELSE st

RECURSIVE buildLoop(_, _)
buildLoop(st, tokens) ==
  IF tokens = <<>> THEN st ELSE buildLoop(buildStep(st, Head(tokens)), Tail(tokens))

\* the flat sections after the loop and the final flush
buildFlat(tokens) == flushContent(buildLoop(BuildStart, tokens)).secs

RECURSIVE sectionsUnder(_, _)
\* the children array of section `parent` (0: rootSections), in push order
sectionsUnder(secs, parent) ==
  LET idx == SelectSeq([i \in 1..Len(secs) |-> i], LAMBDA i : secs[i].parent = parent)
  IN [k \in 1..Len(idx) |->
        [level |-> secs[idx[k]].level, title |-> secs[idx[k]].title, id |-> secs[idx[k]].id,
         content |-> secs[idx[k]].content, children |-> sectionsUnder(secs, idx[k])]]

buildSections(tokens) == sectionsUnder(buildFlat(tokens), 0)

RECURSIVE lastSegment(_)
\* path.split('/') and its last element
lastSegment(path) ==
  IF \E i \in 1..Len(path) : path[i] = "/"
    THEN lastSegment(SubSeq(path, (CHOOSE i \in 1..Len(path) : path[i] = "/") + 1, Len(path)))
    ELSE path

DotMd == <<".", "m", "d">>

\* filename.replace(/\.md$/, '')
stripMd(filename) ==
  IF EndsWith(filename, DotMd) THEN SubSeq(filename, 1, Len(filename) - Len(DotMd))
  ELSE filename

\* the first heading of depth 1, else the file name
extractTitle(tokens, filePath) ==
  LET h1 == {i \in 1..Len(tokens) : tokens[i].type = "heading" /\ tokens[i].depth = 1}
  IN IF h1 # {} THEN tokens[CHOOSE i \in h1 : \A j \in h1 : i <= j].text
     ELSE stripMd(lastSegment(filePath))

\* MarkdownParser.parse, from the tokens marked.lexer returned for the cleaned file
parseMarkdown(file) ==
  [path |-> file.path, title |-> extractTitle(file.tokens, file.path),
   sections |-> buildSections(file.tokens), metadata |-> file.frontmatter]

-----------------------------------------------------------------------------
(* parsers/markdown/adapter.ts and parsers/markdown/index.ts               *)

extractIdFromPath(path) ==
  replaceRuns(toLowerCase(stripMd(lastSegment(path))), {" ", "\n", "\t", "\r"}, FALSE)

convertContent(content) ==
  IF content.type = "code"
    THEN createContentBlock(CODE, content.content,
           IF content.language # <<>> THEN content.language ELSE <<"text">>, EmptyMap)
  ELSE IF content.type = "prose"
    THEN createContentBlock(PROSE, content.content, <<>>, EmptyMap)
  ELSE IF content.type = "blockquote"
    THEN createContentBlock(PROSE, content.content, <<>>, [style |-> <<"blockquote">>])
  ELSE IF content.type = "image"
    THEN createContentBlock(DATA, content.content, <<>>, [type |-> <<"image">>])
  ELSE createContentBlock(PROSE, content.content, <<>>, EmptyMap)

\* a variant that makes every level 2 section a CATEGORY
sectionNodeType_alwaysCategory(level, mapH2ToCategory) ==
  IF level = 2 THEN CATEGORY
  ELSE IF level = 3 THEN OPERATION
  ELSE IF level >= 4 THEN ITEM
  ELSE SECTION

\* the node type convertSection gives a heading level
sectionNodeType(level, mapH2ToCategory) ==
  IF level = 2 /\ mapH2ToCategory THEN CATEGORY
  ELSE IF level = 3 THEN OPERATION
  ELSE IF level >= 4 THEN ITEM
  ELSE SECTION

RECURSIVE convertSection(_, _)
convertSection(section, mapH2ToCategory) ==
  createDocNode(sectionNodeType(section.level, mapH2ToCategory), section.id, section.title,
    [description |-> <<>>,
     content |-> [i \in 1..Len(section.content) |-> convertContent(section.content[i])],
     children |-> [i \in 1..Len(section.children) |->
                     convertSection(section.children[i], mapH2ToCategory)],
     metadata |-> [level |-> section.level]])

\* metadata.set(key, value) on a copy of the map
mapSet(m, key, value) == [k \in DOMAIN m \cup {key} |-> IF k = key THEN value ELSE m[k]]

markdownToDocNode(doc, documentType, mapH2ToCategory) ==
  createDocNode(documentType, extractIdFromPath(doc.path), doc.title,
    [description |-> <<>>, content |-> <<>>,
     children |-> [i \in 1..Len(doc.sections) |->
                     convertSection(doc.sections[i], mapH2ToCategory)],
     metadata |-> mapSet(mapSet(doc.metadata, "format", <<"markdown">>), "path", doc.path)])

mergeMarkdownDocuments_h2Category(docs, rootTitle) ==
  createDocNode(ROOT, <<"r", "o", "o", "t">>, rootTitle,
    [description |-> <<>>, content |-> <<>>,
     children |-> [i \in 1..Len(docs) |-> markdownToDocNode(docs[i], SECTION, TRUE)],
     metadata |-> [format |-> <<"markdown">>, count |-> Len(docs)]])

mergeMarkdownDocuments(docs, rootTitle) ==
  createDocNode(ROOT, <<"r", "o", "o", "t">>, rootTitle,
    [description |-> <<>>, content |-> <<>>,
     children |-> [i \in 1..Len(docs) |-> markdownToDocNode(docs[i], SECTION, FALSE)],
     metadata |-> [format |-> <<"markdown">>, count |-> Len(docs)]])

\* the literal parseSingleFile passes as documentType: 'SECTION' as any
SingleFileDocumentType == "SECTION"

parseSingleFile(file) ==
  markdownToDocNode(parseMarkdown(file), SingleFileDocumentType, TRUE)

\* dirPath.split('/').pop() || 'Documentation'
dirName(dirPath) ==
  IF lastSegment(dirPath) # <<>> THEN lastSegment(dirPath) ELSE <<"Documentation">>

\* a variant in which the results come in the order the parses completed
resolvedDocs_byCompletion(parsed, order) == [k \in 1..Len(order) |-> parsed[order[k]]]

\* what Promise.all resolves to: the result of each promise at the promise's index
resolvedDocs(parsed, order) == parsed

\* what parseDirectory returns when every parse succeeds
parseDirectory(dirPath, fileList) ==
  mergeMarkdownDocuments([i \in 1..Len(fileList) |-> parseMarkdown(fileList[i])],
                         dirName(dirPath))

-----------------------------------------------------------------------------
(* Inputs                                                                  *)

\* size of an OpenRef input: operations + examples + ids listed in the category map
MaxItems == 3
\* number of tokens in the markdown files of a source
MaxTokens == 3
\* length of the body of a content block handed to formatContent directly
MaxBody == 3

SpecInfo == [id |-> <<"s">>, title |-> <<"S", "D", "K">>, description |-> <<"i">>,
             specUrl |-> <<"u">>]

ExampleSet ==
  { [id |-> <<"x">>, name |-> <<"X">>, code |-> <<"l", "e", "t", " ", "v">>,
     description |-> <<"e", " ">>, dataSql |-> <<"q">>, response |-> <<"{", "}">>,
     isSpotlight |-> TRUE],
    [id |-> <<"y">>, name |-> <<"Y">>, code |-> <<"f", "u", "n", "c", " ">>,
     description |-> <<>>, dataSql |-> <<>>, response |-> <<>>,
     isSpotlight |-> FALSE] }

OperationIds == {<<"a">>, <<"b">>}

Operation(id, examples) ==
  IF id = <<"a">>
    THEN [id |-> id, title |-> <<"A">>, description |-> <<" ", "d">>, notes |-> <<"n", "\n">>,
          examples |-> examples]
    ELSE [id |-> id, title |-> <<"B">>, description |-> <<>>, notes |-> <<>>,
          examples |-> examples]

RECURSIVE OperationSeqs(_)
\* the operation lists with at most n operations and examples together
OperationSeqs(n) ==
  {<<>>} \cup
  UNION { UNION { { <<Operation(id, exs)>> \o rest : rest \in OperationSeqs(n - 1 - Len(exs)) }
                  : exs \in SeqsUpTo(ExampleSet, n - 1) }
          : id \in (IF n >= 1 THEN OperationIds ELSE {}) }

CategoryNames == << <<"g">>, <<"h">> >>

NoCategoryMap == [defined |-> FALSE, entries |-> <<>>]

RECURSIVE SumLen(_)
SumLen(seqs) == IF seqs = <<>> THEN 0 ELSE Len(Head(seqs)) + SumLen(Tail(seqs))

\* the category maps that list at most n ids: entries in Map iteration order, keys distinct
CategoryMaps(n) ==
  { [defined |-> TRUE, entries |-> [i \in 1..Len(l) |-> <<CategoryNames[i], l[i]>>]]
    : l \in { m \in SeqsUpTo(SeqsUpTo(OperationIds, n), Len(CategoryNames)) : SumLen(m) <= n } }

ListedIds(catMap) == SumLen([i \in 1..Len(catMap.entries) |-> catMap.entries[i][2]])

HeadingToken(depth) ==
  [type |-> "heading", depth |-> depth, text |-> <<"H", " ", Digits[depth + 1]>>,
   lang |-> <<>>, raw |-> <<>>]

ParagraphToken == [type |-> "paragraph", depth |-> 0, text |-> <<"p">>, lang |-> <<>>, raw |-> <<>>]

TokenSet == {HeadingToken(d) : d \in 1..4} \cup {ParagraphToken}

FilePath == <<"f", ".", "m", "d">>
DirPath == <<"d">>
DirFilePaths == << <<"d", "/", "f", "1", ".", "m", "d">>, <<"d", "/", "G", " ", "2", ".", "m", "d">> >>

MdFile(path, tokens) == [path |-> path, tokens |-> tokens, frontmatter |-> EmptyMap]

\* the file lists findMarkdownFiles can return: at most n tokens in one file, and
\* one token fewer for each further file
DirFileLists(n) ==
  { [i \in 1..Len(l) |-> MdFile(DirFilePaths[i], l[i])]
    : l \in { m \in SeqsUpTo(SeqsUpTo(TokenSet, n), Len(DirFilePaths))
               : Len(m) > 0 => SumLen(m) + Len(m) - 1 <= n } }

DefaultOptions ==
  [outputDir |-> <<"o">>, filenamePrefix |-> <<>>, title |-> <<>>, systemPrompt |-> <<>>,
   includeMetadata |-> TRUE]
CustomOptions ==
  [outputDir |-> <<"o">>, filenamePrefix |-> <<"p">>, title |-> <<"T">>,
   systemPrompt |-> <<"P">>, includeMetadata |-> FALSE]
OptionSet == {DefaultOptions, CustomOptions}

Dates == {<<"November 5, 2026">>}

NoTree == createDocNode("none", <<>>, <<>>, NoNodeOptions)
NoBlock == createContentBlock("none", <<>>, <<>>, EmptyMap)
NoSpecData == [info |-> SpecInfo, operations |-> <<>>]

-----------------------------------------------------------------------------
(* The conversion pipeline: parse a source into a tree, then generateAll   *)

\* a MarkdownDocument that is not there yet
NoDoc == [path |-> <<>>, title |-> <<>>, sections |-> <<>>, metadata |-> EmptyMap]

NoOutcome == [status |-> "none", format |-> "", message |-> <<>>]

IdleDir == parsedDocs = <<>> /\ doneOrder = <<>>
IdleMd ==
  /\ pos = 0 /\ build = BuildStart /\ sections = <<>> /\ h2AsCategory = FALSE
  /\ sectionNodes = <<>> /\ rawContent = <<>> /\ cleaned = <<>>
IdleDetect ==
  /\ parsers = <<>> /\ sourcePath = <<>> /\ hint = "" /\ fsEntry = <<>>
  /\ probes = <<>> /\ detected = NoOutcome

InitCommon ==
  /\ IdleDir /\ IdleMd /\ IdleDetect
  /\ tree = NoTree
  /\ pc = "start"
  /\ dirMade = FALSE
  /\ files = EmptyMap
  /\ ioLog = <<>>
  /\ catIdx = 0
  /\ today \in Dates
  /\ block = NoBlock
  /\ rendered = <<>>

InitOpenRef ==
  /\ sourceKind = "openref"
  /\ categoryMap \in {NoCategoryMap} \cup CategoryMaps(MaxItems)
  /\ \E ops \in OperationSeqs(MaxItems - ListedIds(categoryMap)) :
       specData = [info |-> SpecInfo, operations |-> ops]
  /\ mdFiles = <<>>

InitMdFile ==
  /\ sourceKind = "mdfile"
  /\ \E tokens \in SeqsUpTo(TokenSet, MaxTokens) : mdFiles = <<MdFile(FilePath, tokens)>>
  /\ specData = NoSpecData
  /\ categoryMap = NoCategoryMap

InitMdDir ==
  /\ sourceKind = "mddir"
  /\ mdFiles \in DirFileLists(MaxTokens)
  /\ specData = NoSpecData
  /\ categoryMap = NoCategoryMap

Init ==
  /\ options = DefaultOptions
  /\ InitCommon
  /\ (InitOpenRef \/ InitMdFile \/ InitMdDir)

\* OpenRefFormatParser.parse / parseWithCategories after the YAML is parsed
ParseOpenRef ==
  /\ pc = "start" /\ sourceKind = "openref"
  /\ tree' = openRefToDocNode(specData, categoryMap)
  /\ pc' = "converted"
  /\ UNCHANGED <<sourceKind, specData, categoryMap, mdFiles, options, dirMade, files, ioLog,
                 catIdx, today, block, rendered>>
  /\ UNCHANGED <<dirVars, mdVars, detectVars>>

\* MarkdownFormatParser.parse of a file
ParseSingleFile ==
  /\ pc = "start" /\ sourceKind = "mdfile"
  /\ tree' = parseSingleFile(mdFiles[1])
  /\ pc' = "converted"
  /\ UNCHANGED <<sourceKind, specData, categoryMap, mdFiles, options, dirMade, files, ioLog,
                 catIdx, today, block, rendered>>
  /\ UNCHANGED <<dirVars, mdVars, detectVars>>

\* parseDirectory up to Promise.all: the files are found and one parse per file is started
DiscoverFiles ==
  /\ pc = "start" /\ sourceKind = "mddir" /\ Len(mdFiles) > 0
  /\ parsedDocs' = [i \in 1..Len(mdFiles) |-> NoDoc]
  /\ doneOrder' = <<>>
  /\ pc' = "parsing"
  /\ UNCHANGED <<sourceKind, specData, categoryMap, mdFiles, options, tree, dirMade, files,
                 ioLog, catIdx, today, block, rendered>>
  /\ UNCHANGED <<mdVars, detectVars>>

\* the parse of one file completes; Promise.all keeps its result at the file's index
ParseFile ==
  /\ pc = "parsing"
  /\ \E i \in 1..Len(mdFiles) :
       /\ parsedDocs[i] = NoDoc
       /\ parsedDocs' = [parsedDocs EXCEPT ![i] = parseMarkdown(mdFiles[i])]
       /\ doneOrder' = Append(doneOrder, i)
  /\ UNCHANGED pipeVars
  /\ UNCHANGED <<mdVars, detectVars>>

\* the parse of one file rejects (readFile fails): Promise.all rejects with it
ParseFileError ==
  /\ pc = "parsing"
  /\ \E i \in 1..Len(mdFiles) : parsedDocs[i] = NoDoc
  /\ pc' = "failed"
  /\ parsedDocs' = <<>> /\ doneOrder' = <<>>
  /\ UNCHANGED <<sourceKind, specData, categoryMap, mdFiles, options, tree, dirMade, files,
                 ioLog, catIdx, today, block, rendered>>
  /\ UNCHANGED <<mdVars, detectVars>>

\* parseDirectory after Promise.all resolved: mergeMarkdownDocuments(docs, dirName);
\* the promises and their results are gone when it returns
ParseDirectory ==
  /\ pc = "parsing" /\ sourceKind = "mddir"
  /\ \A i \in 1..Len(mdFiles) : parsedDocs[i] # NoDoc
  /\ tree' = mergeMarkdownDocuments(resolvedDocs(parsedDocs, doneOrder), dirName(DirPath))
  /\ pc' = "converted"
  /\ parsedDocs' = <<>> /\ doneOrder' = <<>>
  /\ UNCHANGED <<sourceKind, specData, categoryMap, mdFiles, options, dirMade, files, ioLog,
                 catIdx, today, block, rendered>>
  /\ UNCHANGED <<mdVars, detectVars>>

\* ... and of one that holds none: "No markdown files found"
ParseDirectoryEmpty ==
  /\ pc = "start" /\ sourceKind = "mddir" /\ Len(mdFiles) = 0
  /\ pc' = "failed"
  /\ UNCHANGED <<sourceKind, specData, categoryMap, mdFiles, options, tree, dirMade, files,
                 ioLog, catIdx, today, block, rendered>>
  /\ UNCHANGED <<dirVars, mdVars, detectVars>>

\* formatDocNode(tree, opts) and generateAll: await mkdir(outputDir, {recursive: true})
Mkdir ==
  /\ pc = "converted"
  /\ options' \in OptionSet
  /\ dirMade' = TRUE
  /\ pc' = "full"
  /\ UNCHANGED <<sourceKind, specData, categoryMap, mdFiles, tree, files, ioLog,
                 catIdx, today, block, rendered>>
  /\ UNCHANGED <<dirVars, mdVars, detectVars>>

\* generateFullDoc, then the head of generateModularDocs up to its first await
WriteFullDoc ==
  /\ pc = "full"
  /\ files' = writeFile(files, fullDocPath(options), fullDocContent(tree, options, today))
  /\ ioLog' = Append(ioLog, fullDocPath(options))
  /\ catIdx' = 1
  /\ pc' = IF Len(categoriesOf(tree)) = 0 THEN "done" ELSE "modular"
  /\ UNCHANGED <<sourceKind, specData, categoryMap, mdFiles, options, tree, dirMade, today,
                 block, rendered>>
  /\ UNCHANGED <<dirVars, mdVars, detectVars>>

\* one iteration of the loop of generateModularDocs
WriteCategoryDoc ==
  /\ pc = "modular"
  /\ LET category == categoriesOf(tree)[catIdx]
     IN /\ files' = writeFile(files, categoryPath(options, category),
                              categoryDocContent(tree, options, category))
        /\ ioLog' = Append(ioLog, categoryPath(options, category))
  /\ catIdx' = catIdx + 1
  /\ pc' = IF catIdx = Len(categoriesOf(tree)) THEN "done" ELSE "modular"
  /\ UNCHANGED <<sourceKind, specData, categoryMap, mdFiles, options, tree, dirMade, today,
                 block, rendered>>
  /\ UNCHANGED <<dirVars, mdVars, detectVars>>

\* mkdir or writeFile rejects: the error ends generateAll
IOError ==
  /\ pc \in {"converted", "full", "modular"}
  /\ pc' = "failed"
  /\ options' \in (IF pc = "converted" THEN OptionSet ELSE {options})
  /\ UNCHANGED <<sourceKind, specData, categoryMap, mdFiles, tree, dirMade, files,
                 ioLog, catIdx, today, block, rendered>>
  /\ UNCHANGED <<dirVars, mdVars, detectVars>>

Next ==
  \/ ParseOpenRef
  \/ ParseSingleFile
  \/ DiscoverFiles
  \/ ParseFile
  \/ ParseFileError
  \/ ParseDirectory
  \/ ParseDirectoryEmpty
  \/ Mkdir
  \/ WriteFullDoc
  \/ WriteCategoryDoc
  \/ IOError

Spec == Init /\ [][Next]_vars

-----------------------------------------------------------------------------
(* formatContent on its own: every block the ContentBlock type admits      *)

BodyChars == {"x", " ", "\n"}

BlockSet ==
  { createContentBlock(t, body, lang, ann)
    : t \in ContentBlockType,
      body \in SeqsUpTo(BodyChars, MaxBody),
      lang \in {<<>>, <<"sql">>},
      ann \in {EmptyMap, [style |-> <<"blockquote">>], [type |-> <<"schema">>]} }

InitBlock ==
  /\ sourceKind = "block"
  /\ block \in BlockSet
  /\ rendered = <<>>
  /\ pc = "start"
  /\ specData = NoSpecData
  /\ categoryMap = NoCategoryMap
  /\ mdFiles = <<>>
  /\ options = DefaultOptions
  /\ tree = NoTree
  /\ dirMade = FALSE
  /\ files = EmptyMap
  /\ ioLog = <<>>
  /\ catIdx = 0
  /\ today \in Dates
  /\ IdleDir /\ IdleMd /\ IdleDetect

\* parts.push(this.formatContent(content)) for one block
FormatContent ==
  /\ pc = "start" /\ sourceKind = "block"
  /\ rendered' = formatContent(block)
  /\ pc' = "done"
  /\ UNCHANGED <<sourceKind, specData, categoryMap, mdFiles, options, tree, dirMade, files,
                 ioLog, catIdx, today, block>>
  /\ UNCHANGED <<dirVars, mdVars, detectVars>>

NextBlock == FormatContent

SpecBlock == InitBlock /\ [][NextBlock]_vars

-----------------------------------------------------------------------------
(* Format detection: FormatDetector and the detect methods of the parsers  *)

\* FormatType
OPENREF == "openref"
MARKDOWN == "markdown"
AUTO == "auto"

RECURSIVE lastPart(_, _)
\* text.split(sep) and its last element
lastPart(text, sep) ==
  IF \E i \in 1..Len(text) : text[i] = sep
    THEN lastPart(SubSeq(text, (CHOOSE i \in 1..Len(text) : text[i] = sep) + 1, Len(text)), sep)
    ELSE text

\* BaseParser.getFileExtension: the last part in lower case, '' without a dot
getFileExtension(path) ==
  IF \E i \in 1..Len(path) : path[i] = "." THEN toLowerCase(lastPart(path, ".")) ELSE <<>>

\* FormatDetector.getFileExtension: the last part as it is, '' without a dot
detectorFileExtension(path) ==
  IF \E i \in 1..Len(path) : path[i] = "." THEN lastPart(path, ".") ELSE <<>>

ExtYml == <<"y", "m", "l">>
ExtYaml == <<"y", "a", "m", "l">>
ExtMd == <<"m", "d">>
ExtMarkdown == <<"m", "a", "r", "k", "d", "o", "w", "n">>

\* a variant that compares the extension as it is written
guessFromExtension_caseSensitive(ext) ==
  IF ext \in {ExtYml, ExtYaml} THEN OPENREF
  ELSE IF ext \in {ExtMd, ExtMarkdown} THEN MARKDOWN
  ELSE AUTO

\* FormatDetector.guessFromExtension
guessFromExtension(ext) ==
  LET normalized == toLowerCase(ext)
  IN IF normalized \in {ExtYml, ExtYaml} THEN OPENREF
     ELSE IF normalized \in {ExtMd, ExtMarkdown} THEN MARKDOWN
     ELSE AUTO

\* the number of characters of the file the OpenRef probe reads
HeadBytes == 200

MarkerInfo == <<"i", "n", "f", "o", ":">>
MarkerFunctions == <<"f", "u", "n", "c", "t", "i", "o", "n", "s", ":">>
MarkerId == <<"i", "d", ":">>

\* a variant of the OpenRef probe that searches the whole file
openRefDetect_wholeFile(path, entry) ==
  /\ getFileExtension(path) \in {ExtYml, ExtYaml}
  /\ entry.kind = "file"
  /\ (Includes(entry.head, MarkerInfo) \/ Includes(entry.head, MarkerFunctions)
        \/ Includes(entry.head, MarkerId))

\* OpenRefFormatParser.detect; reading a directory, an unreadable or a missing file
\* throws and the probe answers false
openRefDetect(path, entry) ==
  LET ext == getFileExtension(path)
      head == SubSeq(entry.head, 1, Min(HeadBytes, Len(entry.head)))
  IN /\ ext \in {ExtYml, ExtYaml}
     /\ entry.kind # "missing"
     /\ entry.kind = "file"
     /\ (Includes(head, MarkerInfo) \/ Includes(head, MarkerFunctions) \/ Includes(head, MarkerId))

\* MarkdownFormatParser.detect
markdownDetect(path, entry) ==
  LET ext == getFileExtension(path)
  IN IF ext \in {ExtMd, ExtMarkdown} THEN entry.kind # "missing"
     ELSE IF entry.kind = "dir"
       THEN \E i \in 1..Len(entry.names) : EndsWith(entry.names[i], DotMd)
     ELSE FALSE

openRefParser == [name |-> "openref", format |-> OPENREF, accepts |-> FALSE]
markdownParser == [name |-> "markdown", format |-> MARKDOWN, accepts |-> FALSE]

\* parser.detect(sourcePath) of a registered parser; a parser registered from outside
\* answers what its own probe answers
probe(parser, path, entry) ==
  IF parser.name = "openref" THEN openRefDetect(path, entry)
  ELSE IF parser.name = "markdown" THEN markdownDetect(path, entry)
  ELSE parser.accepts

\* FormatDetector.getParserForFormat: parsers.find, 0 for undefined
getParserForFormat(registered, format) ==
  LET hits == {i \in 1..Len(registered) : registered[i].format = format}
  IN IF hits = {} THEN 0 ELSE CHOOSE i \in hits : \A j \in hits : i <= j

RECURSIVE joinFormats(_)
\* this.parsers.map((p) => p.format).join(', ')
joinFormats(registered) ==
  IF registered = <<>> THEN <<>>
  ELSE IF Len(registered) = 1 THEN <<registered[1].format>>
  ELSE <<registered[1].format, ",", " ">> \o joinFormats(Tail(registered))

\* a variant of the message that lists the two built-in formats only
unableMessage_builtin(registered, path) ==
  <<"Unable to detect format for: ">> \o path \o <<"\n">>
    \o <<"Supported formats: ">> \o <<OPENREF, ",", " ", MARKDOWN>> \o <<"\n">>
    \o <<"Try specifying --format explicitly">>

\* the message of the Error detect throws
unableMessage(registered, path) ==
  <<"Unable to detect format for: ">> \o path \o <<"\n">>
    \o <<"Supported formats: ">> \o joinFormats(registered) \o <<"\n">>
    \o <<"Try specifying --format explicitly">>

\* a variant of the test on the hint that lets no hint through
hintGiven_never(h) == FALSE

\* if (hint && hint !== FormatType.AUTO)
hintGiven(h) == h # "" /\ h # AUTO

\* a variant of detect that trusts the extension and probes only for other paths
detect_extensionDecides(registered, path, h, entry) ==
  LET quickGuess == guessFromExtension(detectorFileExtension(path))
      hits == {i \in 1..Len(registered) : probe(registered[i], path, entry)}
      first == CHOOSE i \in hits : \A j \in hits : i <= j
  IN IF hintGiven(h)
       THEN [status |-> "returned", format |-> h, message |-> <<>>, probes |-> <<>>]
     ELSE IF quickGuess # AUTO
       THEN [status |-> "returned", format |-> quickGuess, message |-> <<>>, probes |-> <<>>]
     ELSE IF hits # {}
       THEN [status |-> "returned", format |-> registered[first].format,
             message |-> <<>>, probes |-> [i \in 1..first |-> i]]
     ELSE [status |-> "thrown", format |-> "", message |-> unableMessage(registered, path),
           probes |-> [i \in 1..Len(registered) |-> i]]

\* FormatDetector.detect: the outcome and the probes it invoked, in order
detect(registered, path, h, entry) ==
  IF hintGiven(h)
    THEN [status |-> "returned", format |-> h, message |-> <<>>, probes |-> <<>>]
    ELSE
      LET quickGuess == guessFromExtension(detectorFileExtension(path))
          quick == IF quickGuess # AUTO THEN getParserForFormat(registered, quickGuess) ELSE 0
          quickProbes == IF quick # 0 THEN <<quick>> ELSE <<>>
          hits == {i \in 1..Len(registered) : probe(registered[i], path, entry)}
          first == CHOOSE i \in hits : \A j \in hits : i <= j
      IN IF quick # 0 /\ probe(registered[quick], path, entry)
           THEN [status |-> "returned", format |-> quickGuess, message |-> <<>>,
                 probes |-> quickProbes]
         ELSE IF hits # {}
           THEN [status |-> "returned", format |-> registered[first].format,
                 message |-> <<>>, probes |-> quickProbes \o [i \in 1..first |-> i]]
         ELSE [status |-> "thrown", format |-> "", message |-> unableMessage(registered, path),
               probes |-> quickProbes \o [i \in 1..Len(registered) |-> i]]

\* number of parsers registered after the two of the constructor
MaxRegistered == 1

PathSet ==
  { <<"a", ".", "y", "m", "l">>, <<"A", ".", "Y", "A", "M", "L">>, <<"a", ".", "m", "d">>,
    <<"a", ".", "M", "D">>, <<"a", ".", "t", "x", "t">>, <<"d">> }

HintSet == {"", AUTO, OPENREF, MARKDOWN, "asciidoc"}

FsEntrySet ==
  {[kind |-> "missing", head |-> <<>>, names |-> <<>>],
   [kind |-> "unreadable", head |-> MarkerInfo, names |-> <<>>]}
    \cup {[kind |-> "file", head |-> h, names |-> <<>>]
          : h \in {<<>>, <<"#", " ", "T">>, MarkerId, <<"x", "\n">> \o MarkerInfo,
                   MarkerFunctions,
                   [i \in 1..(HeadBytes - 5) |-> " "] \o MarkerInfo,
                   [i \in 1..(HeadBytes - 4) |-> " "] \o MarkerInfo}}
    \cup {[kind |-> "dir", head |-> <<>>, names |-> n]
          : n \in {<<>>, << <<"r", ".", "t", "x", "t">> >>,
                   << <<"r", ".", "t", "x", "t">>, <<"a", ".", "m", "d">> >>}}

ExternalParsers ==
  {[name |-> "external", format |-> f, accepts |-> a] : f \in {"asciidoc", MARKDOWN}, a \in BOOLEAN}

IdlePipe ==
  /\ specData = NoSpecData /\ categoryMap = NoCategoryMap /\ mdFiles = <<>>
  /\ options = DefaultOptions /\ tree = NoTree /\ dirMade = FALSE /\ files = EmptyMap
  /\ ioLog = <<>> /\ catIdx = 0 /\ today \in Dates /\ block = NoBlock /\ rendered = <<>>

\* new FormatDetector() and the arguments of one detect call
InitDetect ==
  /\ sourceKind = "detect" /\ pc = "start"
  /\ IdlePipe /\ IdleDir /\ IdleMd
  /\ parsers = <<openRefParser, markdownParser>>
  /\ sourcePath \in PathSet
  /\ hint \in HintSet
  /\ fsEntry \in FsEntrySet
  /\ probes = <<>>
  /\ detected = NoOutcome

\* registerParser(parser)
RegisterParser ==
  /\ sourceKind = "detect" /\ pc = "start"
  /\ Len(parsers) < 2 + MaxRegistered
  /\ \E parser \in ExternalParsers : parsers' = Append(parsers, parser)
  /\ UNCHANGED <<sourcePath, hint, fsEntry, probes, detected>>
  /\ UNCHANGED <<pipeVars, dirVars, mdVars>>

\* detect(sourcePath, hint) returns a format
DetectReturns ==
  /\ sourceKind = "detect" /\ pc = "start"
  /\ LET outcome == detect(parsers, sourcePath, hint, fsEntry)
     IN /\ outcome.status = "returned"
        /\ detected' = [status |-> outcome.status, format |-> outcome.format,
                        message |-> outcome.message]
        /\ probes' = outcome.probes
  /\ pc' = "done"
  /\ UNCHANGED <<sourceKind, specData, categoryMap, mdFiles, options, tree, dirMade, files,
                 ioLog, catIdx, today, block, rendered>>
  /\ UNCHANGED <<parsers, sourcePath, hint, fsEntry>>
  /\ UNCHANGED <<dirVars, mdVars>>

\* detect(sourcePath, hint) throws
DetectThrows ==
  /\ sourceKind = "detect" /\ pc = "start"
  /\ LET outcome == detect(parsers, sourcePath, hint, fsEntry)
     IN /\ outcome.status = "thrown"
        /\ detected' = [status |-> outcome.status, format |-> outcome.format,
                        message |-> outcome.message]
        /\ probes' = outcome.probes
  /\ pc' = "failed"
  /\ UNCHANGED <<sourceKind, specData, categoryMap, mdFiles, options, tree, dirMade, files,
                 ioLog, catIdx, today, block, rendered>>
  /\ UNCHANGED <<parsers, sourcePath, hint, fsEntry>>
  /\ UNCHANGED <<dirVars, mdVars>>

NextDetect == RegisterParser \/ DetectReturns \/ DetectThrows

SpecDetect == InitDetect /\ [][NextDetect]_vars

-----------------------------------------------------------------------------
(* convertOperation and convertExample on their own                        *)

\* number of examples of the operation handed to convertOperation
MaxExamples == 2

\* the examples with each of description, code, dataSql and response empty or not
ExampleFieldSets ==
  { [id |-> <<"x">>, name |-> <<"X">>, code |-> c, description |-> d, dataSql |-> q,
     response |-> r, isSpotlight |-> FALSE]
    : d \in {<<>>, <<"e">>}, c \in {<<>>, <<"f", "u", "n", "c", " ">>},
      q \in {<<>>, <<"q">>}, r \in {<<>>, <<"{", "}">>} }

OperationFieldSets ==
  { [id |-> <<"a">>, title |-> <<"A">>, description |-> d, notes |-> n, examples |-> exs]
    : d \in {<<>>, <<"d">>}, n \in {<<>>, <<"n">>},
      exs \in SeqsUpTo(ExampleFieldSets, MaxExamples) }

InitConvert ==
  /\ sourceKind = "convert" /\ pc = "start"
  /\ \E operation \in OperationFieldSets :
       specData = [info |-> SpecInfo, operations |-> <<operation>>]
  /\ categoryMap = NoCategoryMap /\ mdFiles = <<>>
  /\ options = DefaultOptions /\ tree = NoTree /\ dirMade = FALSE /\ files = EmptyMap
  /\ ioLog = <<>> /\ catIdx = 0 /\ today \in Dates /\ block = NoBlock /\ rendered = <<>>
  /\ IdleDir /\ IdleMd /\ IdleDetect

\* convertOperation(operation)
ConvertOperation ==
  /\ sourceKind = "convert" /\ pc = "start"
  /\ tree' = convertOperation(specData.operations[1])
  /\ pc' = "converted"
  /\ UNCHANGED <<sourceKind, specData, categoryMap, mdFiles, options, dirMade, files, ioLog,
                 catIdx, today, block, rendered>>
  /\ UNCHANGED <<dirVars, mdVars, detectVars>>

NextConvert == ConvertOperation

SpecConvert == InitConvert /\ [][NextConvert]_vars

-----------------------------------------------------------------------------
(* convertExample on one example whose code is put together from fragments  *)

\* number of fragments in the code of the example
MaxFragments == 2

\* the markers inferLanguage looks for, the two qualifiers ':' and '{', and other text
FragmentSet ==
  {KwConst, KwLet, KwAsync, KwFunc, KwDef, KwImport, KwFrom, KwPublicClass, KwPrivateVal,
   KwClass, KwUsing, KwVoid, KwFuture, <<":">>, <<"{">>, <<"x", "=", "1">>}

\* the code snippets of at most n fragments
Snippets(n) == {Join(fs) : fs \in SeqsUpTo(FragmentSet, n)}

InitExample ==
  /\ sourceKind = "example" /\ pc = "start"
  /\ \E code \in Snippets(MaxFragments), d \in {<<>>, <<"e">>} :
       specData = [info |-> SpecInfo,
                   operations |-> <<[id |-> <<"a">>, title |-> <<"A">>, description |-> <<>>,
                                     notes |-> <<>>,
                                     examples |-> <<[id |-> <<"x">>, name |-> <<"X">>,
                                                     code |-> code, description |-> d,
                                                     dataSql |-> <<>>, response |-> <<>>,
                                                     isSpotlight |-> FALSE]>>]>>]
  /\ categoryMap = NoCategoryMap /\ mdFiles = <<>>
  /\ options = DefaultOptions /\ tree = NoTree /\ dirMade = FALSE /\ files = EmptyMap
  /\ ioLog = <<>> /\ catIdx = 0 /\ today \in Dates /\ block = NoBlock /\ rendered = <<>>
  /\ IdleDir /\ IdleMd /\ IdleDetect

\* convertExample(example)
ConvertExample ==
  /\ sourceKind = "example" /\ pc = "start"
  /\ tree' = convertExample(specData.operations[1].examples[1])
  /\ pc' = "converted"
  /\ UNCHANGED <<sourceKind, specData, categoryMap, mdFiles, options, dirMade, files, ioLog,
                 catIdx, today, block, rendered>>
  /\ UNCHANGED <<dirVars, mdVars, detectVars>>

NextExample == ConvertExample

SpecExample == InitExample /\ [][NextExample]_vars

-----------------------------------------------------------------------------
(* MarkdownParser.cleanDocCContent                                          *)

LitMetadata == <<"@", "M", "e", "t", "a", "d", "a", "t", "a">>
LitOptions == <<"@", "O", "p", "t", "i", "o", "n", "s">>
LitDoc == <<"<", "d", "o", "c", ":">>
LitCommentOpen == <<"<", "!", "-", "-">>
LitCommentClose == <<"-", "-", ">">>

\* the literal stands in the text from position i on
LitAt(text, i, lit) ==
  i + Len(lit) - 1 <= Len(text) /\ SubSeq(text, i, i + Len(lit) - 1) = lit

\* the first position from `from` on that holds the character, 0 when none does
FirstIndex(text, from, c) ==
  LET hits == {k \in from..Len(text) : text[k] = c}
  IN IF hits = {} THEN 0 ELSE CHOOSE k \in hits : \A j \in hits : k <= j

\* the first position from `from` on that holds no white space, Len + 1 when none does
SkipSpace(text, from) ==
  LET stops == {k \in from..(Len(text) + 1) : k = Len(text) + 1 \/ ~IsSpaceChar(text[k])}
  IN CHOOSE k \in stops : \A j \in stops : k <= j

\* \s*\{[^}]*\} from position `from`: the position of the closing brace, 0 for no match
bracedEnd(text, from) ==
  LET open == SkipSpace(text, from)
  IN IF open <= Len(text) /\ text[open] = "{" THEN FirstIndex(text, open + 1, "}") ELSE 0

\* the end of the match of the regular expression at position i, 0 for no match there
matchEnd(kind, text, i) ==
  IF kind = "metadata"
    THEN (IF LitAt(text, i, LitMetadata) THEN bracedEnd(text, i + Len(LitMetadata)) ELSE 0)
  ELSE IF kind = "options"
    THEN (IF LitAt(text, i, LitOptions \o <<"(">>)
            THEN LET close == FirstIndex(text, i + Len(LitOptions) + 1, ")")
                 IN IF close = 0 THEN 0 ELSE bracedEnd(text, close + 1)
            ELSE 0)
  ELSE IF kind = "doc"
    THEN (IF LitAt(text, i, LitDoc)
            THEN LET close == FirstIndex(text, i + Len(LitDoc), ">")
                 IN IF close > i + Len(LitDoc) THEN close ELSE 0
            ELSE 0)
  ELSE IF kind = "comment"
    THEN (IF LitAt(text, i, LitCommentOpen)
            THEN LET ends == {k \in (i + 4)..Len(text) : LitAt(text, k, LitCommentClose)}
                 IN IF ends = {} THEN 0 ELSE (CHOOSE k \in ends : \A j \in ends : k <= j) + 2
            ELSE 0)
  ELSE \* "newlines": \n{3,}
    (IF LitAt(text, i, <<"\n", "\n", "\n">>)
       THEN LET stops == {k \in i..(Len(text) + 1) : k = Len(text) + 1 \/ text[k] # "\n"}
            IN (CHOOSE k \in stops : \A j \in stops : k <= j) - 1
       ELSE 0)

\* what the match from i to e is replaced by
replacement(kind, text, i, e) ==
  IF kind = "doc" THEN SubSeq(text, i + Len(LitDoc), e - 1)
  ELSE IF kind = "newlines" THEN <<"\n", "\n">>
  ELSE <<>>

RECURSIVE replaceAll(_, _, _)
\* text.replace(/.../g, ...) from position i on: matches are taken leftmost first and
\* do not overlap
replaceAll(kind, text, i) ==
  IF i > Len(text) THEN <<>>
  ELSE LET e == matchEnd(kind, text, i)
       IN IF e # 0
            THEN replacement(kind, text, i, e) \o replaceAll(kind, text, e + 1)
            ELSE <<text[i]>> \o replaceAll(kind, text, i + 1)

cleanDocCContent(content) ==
  LET noMetadata == replaceAll("metadata", content, 1)
      noOptions == replaceAll("options", noMetadata, 1)
      noDoc == replaceAll("doc", noOptions, 1)
      noComments == replaceAll("comment", noDoc, 1)
      collapsed == replaceAll("newlines", noComments, 1)
  IN trim(collapsed)

\* number of pieces the text of the file is put together from
MaxPieces == 3

\* directive names, brackets, tag and comment delimiters, newlines and plain text
PieceSet ==
  {LitMetadata, LitOptions, LitOptions \o <<"(", ")">>, <<"{">>, <<"}">>, LitDoc, <<">">>,
   LitCommentOpen, LitCommentClose, <<"\n">>, <<"x", "\n">>, <<"\n", "x">>, <<"x">>}

\* the texts of at most n pieces
Texts(n) == {Join(ps) : ps \in SeqsUpTo(PieceSet, n)}

InitClean ==
  /\ sourceKind = "clean" /\ pc = "start"
  /\ IdlePipe /\ IdleDir /\ IdleDetect
  /\ pos = 0 /\ build = BuildStart /\ sections = <<>> /\ h2AsCategory = FALSE
  /\ sectionNodes = <<>>
  /\ rawContent \in Texts(MaxPieces)
  /\ cleaned = <<>>

\* const cleaned = this.cleanDocCContent(content)
CleanDocCContent ==
  /\ sourceKind = "clean" /\ pc = "start"
  /\ cleaned' = cleanDocCContent(rawContent)
  /\ pc' = "cleaned"
  /\ UNCHANGED <<sourceKind, specData, categoryMap, mdFiles, options, tree, dirMade, files,
                 ioLog, catIdx, today, block, rendered>>
  /\ UNCHANGED <<pos, build, sections, h2AsCategory, sectionNodes, rawContent>>
  /\ UNCHANGED <<dirVars, detectVars>>

NextClean == CleanDocCContent

SpecClean == InitClean /\ [][NextClean]_vars

-----------------------------------------------------------------------------
(* buildSections token by token, and convertSection on its result          *)

CodeToken == [type |-> "code", depth |-> 0, text |-> <<"c">>, lang |-> <<>>, raw |-> <<>>]
SpaceToken == [type |-> "space", depth |-> 0, text |-> <<>>, lang |-> <<>>, raw |-> <<"\n">>]

\* the tokens marked.lexer hands to buildSections: headings of five levels and content
SectionTokenSet ==
  {HeadingToken(d) : d \in 1..5} \cup {ParagraphToken, CodeToken, SpaceToken}

InitSections ==
  /\ sourceKind = "sections" /\ pc = "start"
  /\ \E tokens \in SeqsUpTo(SectionTokenSet, MaxTokens) : mdFiles = <<MdFile(FilePath, tokens)>>
  /\ h2AsCategory \in BOOLEAN
  /\ pos = 0 /\ build = BuildStart /\ sections = <<>> /\ sectionNodes = <<>>
  /\ rawContent = <<>> /\ cleaned = <<>>
  /\ specData = NoSpecData /\ categoryMap = NoCategoryMap
  /\ options = DefaultOptions /\ tree = NoTree /\ dirMade = FALSE /\ files = EmptyMap
  /\ ioLog = <<>> /\ catIdx = 0 /\ today \in Dates /\ block = NoBlock /\ rendered = <<>>
  /\ IdleDir /\ IdleDetect

\* one iteration of the for loop of buildSections
BuildStep ==
  /\ sourceKind = "sections" /\ pc = "start"
  /\ pos < Len(mdFiles[1].tokens)
  /\ build' = buildStep(build, mdFiles[1].tokens[pos + 1])
  /\ pos' = pos + 1
  /\ UNCHANGED <<sections, h2AsCategory, sectionNodes, rawContent, cleaned>>
  /\ UNCHANGED <<pipeVars, dirVars, detectVars>>

\* the loop is over: the remaining content goes to the top of the stack and
\* rootSections is returned
BuildReturn ==
  /\ sourceKind = "sections" /\ pc = "start"
  /\ pos = Len(mdFiles[1].tokens)
  /\ build' = flushContent(build)
  /\ sections' = sectionsUnder(flushContent(build).secs, 0)
  /\ pc' = "built"
  /\ UNCHANGED <<sourceKind, specData, categoryMap, mdFiles, options, tree, dirMade, files,
                 ioLog, catIdx, today, block, rendered>>
  /\ UNCHANGED <<pos, h2AsCategory, sectionNodes, rawContent, cleaned>>
  /\ UNCHANGED <<dirVars, detectVars>>

\* doc.sections.map((section) => convertSection(section, mapH2ToCategory))
ConvertSections ==
  /\ sourceKind = "sections" /\ pc = "built"
  /\ sectionNodes' = [i \in 1..Len(sections) |-> convertSection(sections[i], h2AsCategory)]
  /\ pc' = "converted"
  /\ UNCHANGED <<sourceKind, specData, categoryMap, mdFiles, options, tree, dirMade, files,
                 ioLog, catIdx, today, block, rendered>>
  /\ UNCHANGED <<pos, build, sections, h2AsCategory, rawContent, cleaned>>
  /\ UNCHANGED <<dirVars, detectVars>>

NextSections == BuildStep \/ BuildReturn \/ ConvertSections

SpecSections == InitSections /\ [][NextSections]_vars

-----------------------------------------------------------------------------
(* Reading the output files back                                           *)

RECURSIVE SplitOn(_, _)
\* the pieces of text between occurrences of the character sep
SplitOn(text, sep) ==
  IF \E i \in 1..Len(text) : text[i] = sep
    THEN LET i == CHOOSE k \in 1..Len(text) :
                    text[k] = sep /\ \A j \in 1..(k - 1) : text[j] # sep
         IN <<SubSeq(text, 1, i - 1)>> \o SplitOn(SubSeq(text, i + 1, Len(text)), sep)
    ELSE <<text>>

Lines(text) == SplitOn(text, "\n")

IsHeadingLine(line) == line # <<>> /\ line[1] = "#"

IsDigit(c) == \E i \in 1..Len(Digits) : Digits[i] = c

DigitValue(c) == (CHOOSE i \in 1..Len(Digits) : Digits[i] = c) - 1

RECURSIVE TextToNum(_)
TextToNum(t) ==
  IF t = <<>> THEN 0 ELSE 10 * TextToNum(SubSeq(t, 1, Len(t) - 1)) + DigitValue(t[Len(t)])

\* the length of the longest prefix of text whose characters satisfy Test
PrefixLen(text, Test(_)) ==
  CHOOSE k \in 0..Len(text) :
    /\ \A j \in 1..k : Test(text[j])
    /\ k < Len(text) => ~Test(text[k + 1])

\* a heading line "<hashes> <n1.n2...>. <title>" taken apart
ReadHeading(line) ==
  LET hashes == PrefixLen(line, LAMBDA c : c = "#")
      rest == SubSeq(line, hashes + 2, Len(line))
      numLen == PrefixLen(rest, LAMBDA c : IsDigit(c) \/ c = ".")
      numText == SubSeq(rest, 1, numLen - 1)
  IN [hashes |-> hashes,
      wellFormed |-> /\ Len(line) > hashes /\ line[hashes + 1] = " "
                     /\ numLen >= 1 /\ rest[numLen] = "."
                     /\ Len(rest) > numLen /\ rest[numLen + 1] = " ",
      number |-> IF numText = <<>> THEN <<>>
                 ELSE [i \in 1..Len(SplitOn(numText, ".")) |-> TextToNum(SplitOn(numText, ".")[i])],
      title |-> SubSeq(rest, numLen + 2, Len(rest))]

\* the heading lines of a file below its "# <title>" line, taken apart
NodeHeadings(text) ==
  LET hs == SelectSeq(Lines(text), IsHeadingLine)
  IN [i \in 1..(Len(hs) - 1) |-> ReadHeading(hs[i + 1])]

RECURSIVE Preorder(_, _)
\* a node and its descendants in depth-first order, each with its position path
Preorder(node, path) ==
  <<[path |-> path, node |-> node]>>
    \o Join([i \in 1..Len(node.children) |-> Preorder(node.children[i], Append(path, i))])

\* the nodes below the top node of a tree
Below(root) == Tail(Preorder(root, <<>>))

FullWritten == pc \in {"modular", "done"} \/ (pc = "failed" /\ Len(ioLog) > 0)

\* <outputDir>/<prefix>-<name>-llms.txt, the prefix 'documentation' when none is given
OutputPath(opts, name) ==
  opts.outputDir \o <<"/">>
    \o (IF opts.filenamePrefix = <<>>
          THEN <<"d", "o", "c", "u", "m", "e", "n", "t", "a", "t", "i", "o", "n">>
          ELSE opts.filenamePrefix)
    \o <<"-">> \o name \o <<"-", "l", "l", "m", "s", ".", "t", "x", "t">>

FullFile == files[OutputPath(options, <<"f", "u", "l", "l">>)]

-----------------------------------------------------------------------------
(* Claims                                                                  *)

\* C1: in the full file of a tree rooted at a ROOT node, the headings are those of
\* the nodes below the root in depth-first order, and each carries the number path
\* made of the 1-based sibling positions from the root down to the node, whatever
\* the node's kind or identifier.
C1_NumberPathIsPosition ==
  (FullWritten /\ tree.type = ROOT) =>
    LET hs == NodeHeadings(FullFile)
        nodes == Below(tree)
    IN /\ Len(hs) = Len(nodes)
       /\ \A i \in 1..Len(nodes) :
            /\ hs[i].wellFormed
            /\ hs[i].number = nodes[i].path
            /\ hs[i].title = nodes[i].node.title

\* C1 witness: a full file with headings 1.2 and 2 under nodes of different kinds
C1_Witness ==
  /\ FullWritten /\ tree.type = ROOT
  /\ \E i, j \in 1..Len(Below(tree)) :
       /\ Below(tree)[i].path = <<1, 2>> /\ Below(tree)[j].path = <<2>>
       /\ Below(tree)[i].node.type # Below(tree)[j].node.type
  /\ \E h \in 1..Len(NodeHeadings(FullFile)) : NodeHeadings(FullFile)[h].number = <<1, 2>>

\* the headings the operations and examples of a spec stand for, in source order
RECURSIVE SourceHeadings(_, _)
SourceHeadings(operations, k) ==
  IF k > Len(operations) THEN <<>>
  ELSE <<[number |-> <<k>>, title |-> operations[k].title]>>
         \o [j \in 1..Len(operations[k].examples) |->
               [number |-> <<k, j>>, title |-> operations[k].examples[j].name]]
         \o SourceHeadings(operations, k + 1)

\* C2: a spec converted without a category map and rendered: the headings of the
\* full file are, one for one and in source order, the operations (the k-th
\* numbered k) each followed by its examples (the j-th numbered k.j); none is
\* dropped, merged or moved, also when ids or titles repeat.
C2_SourceOrderKept ==
  (FullWritten /\ sourceKind = "openref" /\ ~categoryMap.defined) =>
    LET hs == NodeHeadings(FullFile)
        want == SourceHeadings(specData.operations, 1)
    IN /\ Len(hs) = Len(want)
       /\ \A i \in 1..Len(want) :
            hs[i].number = want[i].number /\ hs[i].title = want[i].title

\* C2 witness: two operations with the same id and title, the second with an example
C2_Witness ==
  /\ FullWritten /\ sourceKind = "openref" /\ ~categoryMap.defined
  /\ Len(specData.operations) = 2
  /\ specData.operations[1].id = specData.operations[2].id
  /\ specData.operations[1].title = specData.operations[2].title
  /\ Len(specData.operations[2].examples) = 1
  /\ Len(NodeHeadings(FullFile)) = 3

\* the ids of a category that resolve to an operation of the spec, in listed order
Resolvable(ids) ==
  SelectSeq(ids, LAMBDA id : \E k \in 1..Len(specData.operations) : specData.operations[k].id = id)

\* the categories with at least one resolvable id, in map iteration order
KeptEntries == SelectSeq(categoryMap.entries, LAMBDA e : Resolvable(e[2]) # <<>>)

TreeBuilt == tree # NoTree

\* C3: with a non-empty category map the ROOT's children are exactly the categories
\* that have a resolvable id, as CATEGORY nodes in map order, each holding the
\* OPERATION nodes of its resolvable ids in listed order; unresolvable ids and
\* categories without a resolvable id leave no node, and the conversion succeeds.
C3_CategoryTree ==
  (sourceKind = "openref" /\ pc # "start" /\ categoryMap.defined /\ categoryMap.entries # <<>>) =>
    /\ tree.type = ROOT
    /\ Len(tree.children) = Len(KeptEntries)
    /\ \A i \in 1..Len(KeptEntries) :
         LET group == tree.children[i]
             ids == Resolvable(KeptEntries[i][2])
         IN /\ group.type = CATEGORY
            /\ group.id = KeptEntries[i][1] /\ group.title = KeptEntries[i][1]
            /\ Len(group.children) = Len(ids)
            /\ \A j \in 1..Len(ids) :
                 /\ group.children[j].type = OPERATION
                 /\ group.children[j].id = ids[j]
                 /\ \E k \in 1..Len(specData.operations) :
                      /\ specData.operations[k].id = ids[j]
                      /\ specData.operations[k].title = group.children[j].title

\* C3 witness: the first category lists only an id the spec lacks, the second resolves
C3_Witness ==
  /\ sourceKind = "openref" /\ pc = "converted"
  /\ categoryMap.defined /\ Len(categoryMap.entries) = 2
  /\ categoryMap.entries[1][2] # <<>> /\ Resolvable(categoryMap.entries[1][2]) = <<>>
  /\ Len(tree.children) = 1 /\ tree.children[1].id = categoryMap.entries[2][1]

\* the paths one render call may write: the full file and one file per direct
\* child of the root whose type is CATEGORY
ExpectedPaths ==
  {OutputPath(options, <<"f", "u", "l", "l">>)}
    \cup {OutputPath(options, tree.children[i].id)
          : i \in {k \in 1..Len(tree.children) : tree.children[k].type = CATEGORY}}

GroupCount == Cardinality({k \in 1..Len(tree.children) : tree.children[k].type = CATEGORY})

\* C4: a render call never writes a file other than <prefix>-full-llms.txt and
\* <prefix>-<id>-llms.txt of the root's direct CATEGORY children, and when it has
\* completed it has written the full file once and one file for each such child
\* (the full file only when there is none).
C4_FilesWritten ==
  /\ TreeBuilt => DOMAIN files \subseteq ExpectedPaths
  /\ pc = "done" =>
       /\ DOMAIN files = ExpectedPaths
       /\ Len(ioLog) = 1 + GroupCount
       /\ ioLog[1] = OutputPath(options, <<"f", "u", "l", "l">>)

\* C4 witness: a completed call with the default prefix, two groups and three files
C4_Witness ==
  /\ pc = "done" /\ options.filenamePrefix = <<>>
  /\ GroupCount = 2 /\ Cardinality(DOMAIN files) = 3

\* C4 witness of the other case: CATEGORY nodes only below the first level
C4_WitnessDeep ==
  /\ pc = "done" /\ GroupCount = 0 /\ Cardinality(DOMAIN files) = 1
  /\ \E i \in 1..Len(Below(tree)) : Below(tree)[i].node.type = CATEGORY

\* the lines of a file from line `from` to line `to`, heading lines taken apart and
\* their number paths relieved of the first `strip` positions
ReadLines(lines, from, to, strip) ==
  [i \in 1..(to - from + 1) |->
     LET line == lines[from + i - 1]
     IN IF IsHeadingLine(line)
          THEN [heading |-> TRUE, text |-> ReadHeading(line).title,
                number |-> SubSeq(ReadHeading(line).number, strip + 1,
                                  Len(ReadHeading(line).number))]
          ELSE [heading |-> FALSE, text |-> line, number |-> <<>>]]

RECURSIVE DropTrailingEmpty(_)
DropTrailingEmpty(read) ==
  IF read # <<>> /\ ~read[Len(read)].heading /\ read[Len(read)].text = <<>>
    THEN DropTrailingEmpty(SubSeq(read, 1, Len(read) - 1))
    ELSE read

\* the indices of the heading lines of a file, the "# <title>" line left out
HeadingLineIndices(lines) ==
  Tail(SelectSeq([i \in 1..Len(lines) |-> i], LAMBDA i : IsHeadingLine(lines[i])))

\* the positions of the root's CATEGORY children among its children
GroupPositions ==
  SelectSeq([i \in 1..Len(tree.children) |-> i], LAMBDA i : tree.children[i].type = CATEGORY)

\* C5: the group file written last restarts the numbering: the group's i-th child
\* is numbered i, and from the group's heading on the file is, line for line, the
\* part of the full file that belongs to the group (position N under the root),
\* with every number path N.p replaced by p.
C5_GroupNumberingRestarts ==
  (pc \in {"modular", "done", "failed"} /\ catIdx >= 2) =>
    LET N == GroupPositions[catIdx - 1]
        group == tree.children[N]
        gl == Lines(files[OutputPath(options, group.id)])
        fl == Lines(FullFile)
        gh == HeadingLineIndices(gl)
        fh == HeadingLineIndices(fl)
        fromFull == CHOOSE i \in {fh[k] : k \in 1..Len(fh)} : ReadHeading(fl[i]).number = <<N>>
        after == {fh[k] : k \in 1..Len(fh)} \cap
                   {i \in 1..Len(fl) : i > fromFull /\ ReadHeading(fl[i]).number = <<N + 1>>}
        toFull == IF after = {} THEN Len(fl) ELSE (CHOOSE i \in after : TRUE) - 1
        firsts == SelectSeq(gh, LAMBDA i : Len(ReadHeading(gl[i]).number) = 1)
    IN /\ DropTrailingEmpty(ReadLines(gl, gh[1], Len(gl), 0))
            = DropTrailingEmpty(ReadLines(fl, fromFull, toFull, 1))
       /\ Len(firsts) = Len(group.children)
       /\ \A i \in 1..Len(firsts) :
            /\ ReadHeading(gl[firsts[i]]).number = <<i>>
            /\ ReadHeading(gl[firsts[i]]).title = group.children[i].title

\* C5 witness: the second child of the root is a group with a child, numbered 2.1
\* in the full file and 1 in the group file
C5_Witness ==
  /\ pc = "done" /\ catIdx >= 2
  /\ GroupPositions[catIdx - 1] = 2
  /\ Len(tree.children[2].children) >= 1
  /\ \E h \in 1..Len(NodeHeadings(FullFile)) : NodeHeadings(FullFile)[h].number = <<2, 1>>
  /\ \E h \in 1..Len(NodeHeadings(files[OutputPath(options, tree.children[2].id)])) :
       NodeHeadings(files[OutputPath(options, tree.children[2].id)])[h].number = <<1>>

\* C6: the top node of the tree handed to the formatter gets no heading in the
\* full file: the headings are those of the nodes below it, and each is numbered.
\* (Fails for the tree of a single markdown file, whose top node is not ROOT.)
C6_TopNodeNeverHeaded ==
  FullWritten =>
    /\ Len(NodeHeadings(FullFile)) = Len(Below(tree))
    /\ \A h \in 1..Len(NodeHeadings(FullFile)) : NodeHeadings(FullFile)[h].number # <<>>

\* C6 case: the full file of a single markdown file, whose first node heading is
\* the top node's and shows an empty number path
C6_Witness ==
  /\ FullWritten /\ sourceKind = "mdfile"
  /\ Len(NodeHeadings(FullFile)) = Len(Below(tree)) + 1
  /\ NodeHeadings(FullFile)[1].number = <<>>
  /\ NodeHeadings(FullFile)[1].title = tree.title

OwnText(node, path) ==
  Repeat("#", IF Len(path) + 1 < 4 THEN Len(path) + 1 ELSE 4) \o <<" ">>
    \o JoinWith(path, <<".">>) \o <<".", " ">> \o node.title \o <<"\n", "\n">>
    \o (IF node.description = <<>> THEN <<>> ELSE node.description \o <<"\n", "\n">>)
    \o Join([b \in 1..Len(node.content) |-> formatContent(node.content[b])])

\* the nodes that get a heading, in depth-first order
HeadedNodes == IF tree.type = ROOT THEN Below(tree) ELSE Preorder(tree, <<>>)

\* C8: below its header the full file is the concatenation, over the nodes in
\* depth-first order, of each node's own text (heading, blank line, summary when
\* non-empty, blocks in order): a node's blocks precede its descendants' headings
\* and its whole subtree precedes its next sibling.
C8_NodeRenderingOrder ==
  FullWritten =>
    FullFile = generateHeader(tree, options, today)
                 \o Join([i \in 1..Len(HeadedNodes) |->
                            OwnText(HeadedNodes[i].node, HeadedNodes[i].path)])

\* C8 witness: a node with a summary, blocks and a child, followed by a sibling
C8_Witness ==
  /\ FullWritten /\ tree.type = ROOT /\ Len(tree.children) = 2
  /\ tree.children[1].description # <<>>
  /\ Len(tree.children[1].content) >= 2
  /\ Len(tree.children[1].children) = 1
  /\ Len(tree.children[1].children[1].content) >= 2

\* C9: a CODE block is rendered as the fence with its language ('text' when it has
\* none), a newline, the body as it is, a newline, the closing fence and a blank
\* line; a PROSE block as the body as it is and a blank line.
C9_BodyPassthrough ==
  pc = "done" =>
    /\ block.type = CODE =>
         rendered = <<Backquote, Backquote, Backquote>>
                      \o (IF block.language = <<>> THEN <<"text">> ELSE block.language)
                      \o <<"\n">> \o block.content \o <<"\n">>
                      \o <<Backquote, Backquote, Backquote, "\n", "\n">>
    /\ block.type = PROSE => rendered = block.content \o <<"\n", "\n">>

\* C9 witness: a CODE block without language whose body starts with a blank and ends
\* with a newline
C9_Witness ==
  /\ pc = "done" /\ block.type = CODE /\ block.language = <<>>
  /\ block.content = <<" ", "x", "\n">>
  /\ Len(rendered) = 14

\* C10 as stated: a DATA block is rendered as exactly '// T', '/*', the body, '*/'
\* and one blank line, T being the 'type' annotation or 'data'.
\* (Fails: the renderer puts a newline in front of the comment line.)
C10_DataBlockExact ==
  (pc = "done" /\ block.type = DATA) =>
    rendered = <<"/", "/", " ">>
                 \o (IF "type" \in DOMAIN block.annotations
                       THEN block.annotations["type"] ELSE <<"data">>)
                 \o <<"\n", "/", "*", "\n">> \o block.content
                 \o <<"\n", "*", "/", "\n", "\n">>

\* C10 amended: a DATA block is rendered as exactly one newline, then '// T', '/*',
\* the body, '*/' and one blank line, T being the 'type' annotation or 'data' when
\* the block has none.
C10_DataBlockAfterNewline ==
  (pc = "done" /\ block.type = DATA) =>
    rendered = <<"\n", "/", "/", " ">>
                 \o (IF "type" \in DOMAIN block.annotations
                       THEN block.annotations["type"] ELSE <<"data">>)
                 \o <<"\n", "/", "*", "\n">> \o block.content
                 \o <<"\n", "*", "/", "\n", "\n">>

\* C10 witness: a DATA block without a 'type' annotation and with a body
C10_Witness ==
  /\ pc = "done" /\ block.type = DATA
  /\ "type" \notin DOMAIN block.annotations
  /\ block.content = <<"x", "\n", " ">>
  /\ Len(rendered) = 17

\* C14: whatever the order in which the per-file parses complete, the merge returns a
\* ROOT with exactly one SECTION child per file, in the order the files were found,
\* and a count tag equal to the number of children; when a parse fails the call
\* fails and no tree is returned.
C14_MergeKeepsDiscoveryOrder ==
  [][ /\ (pc = "parsing" /\ pc' = "converted") =>
           /\ tree'.type = ROOT
           /\ Len(tree'.children) = Len(mdFiles)
           /\ tree'.metadata["count"] = Len(tree'.children)
           /\ \A i \in 1..Len(mdFiles) :
                /\ tree'.children[i].type = SECTION
                /\ tree'.children[i].metadata["path"] = mdFiles[i].path
                /\ tree'.children[i].title = extractTitle(mdFiles[i].tokens, mdFiles[i].path)
                /\ tree'.children[i].children
                     = [k \in 1..Len(buildSections(mdFiles[i].tokens)) |->
                          convertSection(buildSections(mdFiles[i].tokens)[k], FALSE)]
      /\ (pc = "parsing" /\ pc' \notin {"parsing", "converted"}) =>
           pc' = "failed" /\ tree' = NoTree
      /\ (pc = "parsing" /\ pc' = "parsing") => tree' = NoTree
    ]_vars

\* C14 witness: the parses of two files with different sections have completed in
\* the reverse of the order in which the files were found
C14_Witness ==
  /\ pc = "parsing" /\ Len(mdFiles) = 2 /\ doneOrder = <<2, 1>>
  /\ mdFiles[1].tokens # mdFiles[2].tokens
  /\ parsedDocs[1].path = mdFiles[1].path /\ parsedDocs[2].path = mdFiles[2].path

\* the writes of a complete call, in order: the full file, then the file of each
\* CATEGORY child of the root in child order
ExpectedWrites ==
  <<OutputPath(options, <<"f", "u", "l", "l">>)>>
    \o [k \in 1..Len(GroupPositions) |->
          OutputPath(options, tree.children[GroupPositions[k]].id)]

RECURSIVE Retag(_, _, _)
\* the tree with the top node's tags replaced by topTags and every other node's by
\* otherTags; nothing else differs
Retag(node, topTags, otherTags) ==
  [node EXCEPT !.metadata = topTags,
               !.children = [i \in 1..Len(node.children) |->
                               Retag(node.children[i], otherTags, otherTags)]]

TagMaps == {EmptyMap, [format |-> <<"other">>, level |-> 7]}

\* the tag map m with the 'format' entry of the map `kept`
WithFormatOf(m, kept) ==
  IF "format" \in DOMAIN kept
    THEN [k \in DOMAIN m \cup {"format"} |-> IF k = "format" THEN kept["format"] ELSE m[k]]
    ELSE [k \in DOMAIN m \ {"format"} |-> m[k]]

\* the files a render call has written so far are those the re-tagged tree gives
SameFilesFor(other) ==
  /\ FullWritten => FullFile = fullDocContent(other, options, today)
  /\ (pc \in {"modular", "done", "failed"} /\ catIdx >= 2) =>
       files[OutputPath(options, tree.children[GroupPositions[catIdx - 1]].id)]
         = categoryDocContent(other, options, other.children[GroupPositions[catIdx - 1]])

\* C13 as stated: a tree that differs from the rendered one only in the tag maps of
\* its nodes gives the same full and group files.
\* (Fails: the full file's metadata comment shows the root's 'format' tag.)
C13_TagsNeverAffectRendering ==
  \A topTags \in TagMaps : \A otherTags \in TagMaps :
    SameFilesFor(Retag(tree, topTags, otherTags))

\* C13 amended: a tree that differs from the rendered one only in the tag maps of its
\* nodes, and has the same 'format' tag on its top node (or none, as the rendered
\* one), gives the same full and group files.
C13_TagsButFormatNeverAffectRendering ==
  \A topTags \in TagMaps : \A otherTags \in TagMaps :
    SameFilesFor(Retag(tree, WithFormatOf(topTags, tree.metadata), otherTags))

\* C13 witness: a tree with tags on the top node and below it has been rendered into a
\* full file and a group file, and a re-tagged tree differs from it at both places
C13_Witness ==
  /\ pc = "done" /\ catIdx >= 2 /\ options.includeMetadata
  /\ "format" \in DOMAIN tree.metadata
  /\ \E i \in 1..Len(Below(tree)) : DOMAIN Below(tree)[i].node.metadata # {}
  /\ Retag(tree, WithFormatOf(EmptyMap, tree.metadata), EmptyMap) # tree

\* the probe of the i-th registered parser succeeds for the path
ProbeSucceeds(i) == probe(parsers[i], sourcePath, fsEntry)

\* C11: with a hint other than 'auto' detect returns the hint and invokes no probe
\* (the probes being all that reads the path), whatever the path, what is at the
\* path, and whether or not a registered parser has the hinted format.
C11_HintReturnedUnprobed ==
  (sourceKind = "detect" /\ pc # "start" /\ hint \notin {"", AUTO}) =>
    /\ pc = "done"
    /\ detected.status = "returned" /\ detected.format = hint
    /\ probes = <<>>

\* C11 witness: the hint names a format no parser has, for a missing .yml path
C11_Witness ==
  /\ pc = "done" /\ hint = "asciidoc" /\ detected.format = "asciidoc"
  /\ \A i \in 1..Len(parsers) : parsers[i].format # hint
  /\ fsEntry.kind = "missing" /\ sourcePath = <<"a", ".", "y", "m", "l">>

\* the formats of the registered parsers in registration order, separated by ', '
FormatList ==
  Join([i \in 1..Len(parsers) |->
          IF i = 1 THEN <<parsers[i].format>> ELSE <<",", " ", parsers[i].format>>])

\* C12: without a hint, or with 'auto', detect fails exactly when no registered
\* probe succeeds for the path; the error names the path, lists the formats of all
\* registered parsers in registration order and asks for an explicit format, and no
\* format is returned.
C12_FailsWhenNoProbeSucceeds ==
  (sourceKind = "detect" /\ pc # "start" /\ hint \in {"", AUTO}) =>
    /\ (pc = "failed") <=> (\A i \in 1..Len(parsers) : ~ProbeSucceeds(i))
    /\ (pc = "failed") <=> (detected.status = "thrown")
    /\ pc = "failed" =>
         /\ detected.format = ""
         /\ detected.message
              = <<"Unable to detect format for: ">> \o sourcePath
                  \o <<"\n", "Supported formats: ">> \o FormatList
                  \o <<"\n", "Try specifying --format explicitly">>
    /\ pc = "done" => detected.format \in {parsers[i].format : i \in 1..Len(parsers)}

\* C12 witness: a failure with a parser registered after the constructor's two
C12_Witness ==
  /\ pc = "failed" /\ hint = AUTO /\ Len(parsers) = 3
  /\ parsers[3].format = "asciidoc"
  /\ sourcePath = <<"a", ".", "t", "x", "t">> /\ fsEntry.kind = "file"

\* the format the path's extension stands for, "" when for none
ExtensionFormat ==
  IF sourcePath \in {<<"a", ".", "y", "m", "l">>, <<"A", ".", "Y", "A", "M", "L">>} THEN OPENREF
  ELSE IF sourcePath \in {<<"a", ".", "m", "d">>, <<"a", ".", "M", "D">>} THEN MARKDOWN
  ELSE ""

\* the parser registered first among those of a format
FirstOfFormat(format) ==
  CHOOSE i \in 1..Len(parsers) :
    parsers[i].format = format /\ \A j \in 1..(i - 1) : parsers[j].format # format

\* the probes of the registration-order pass: up to the first that succeeds
OrderedPass ==
  LET hits == {i \in 1..Len(parsers) : ProbeSucceeds(i)}
      last == IF hits = {} THEN Len(parsers) ELSE CHOOSE i \in hits : \A j \in hits : i <= j
  IN [i \in 1..last |-> i]

\* C17: without a hint, or with 'auto': for a yml/yaml or md/markdown extension in
\* any case the probe of that format is invoked first and, if it succeeds, its
\* format is returned and no other probe is invoked; otherwise the probes are
\* invoked in registration order up to the first that succeeds, whose format is
\* returned.  Every probe invoked before the last one has failed.
C17_ProbeOrder ==
  (sourceKind = "detect" /\ pc # "start" /\ hint \in {"", AUTO}) =>
    /\ IF ExtensionFormat # "" /\ ProbeSucceeds(FirstOfFormat(ExtensionFormat))
         THEN /\ probes = <<FirstOfFormat(ExtensionFormat)>>
              /\ pc = "done" /\ detected.format = ExtensionFormat
       ELSE IF ExtensionFormat # ""
         THEN probes = <<FirstOfFormat(ExtensionFormat)>> \o OrderedPass
       ELSE probes = OrderedPass
    /\ pc = "done" => /\ ProbeSucceeds(probes[Len(probes)])
                      /\ detected.format = parsers[probes[Len(probes)]].format
    /\ \A k \in 1..(Len(probes) - 1) : ~ProbeSucceeds(probes[k])

\* C17 witness: for a missing a.md the fast path and both built-in probes fail and the
\* parser registered afterwards is the one that answers
C17_Witness ==
  /\ pc = "done" /\ hint = "" /\ sourcePath = <<"a", ".", "m", "d">>
  /\ probes = <<2, 1, 2, 3>>
  /\ detected.format = MARKDOWN /\ parsers[3].accepts

\* C17 witness of the fast path: an upper-case extension, one probe only
C17_WitnessFastPath ==
  /\ pc = "done" /\ hint = AUTO /\ sourcePath = <<"a", ".", "M", "D">>
  /\ probes = <<2>> /\ Len(parsers) = 3 /\ parsers[3].accepts

\* the four blocks an example can give, in their order, those of an empty field left out
ExpectedExampleBlocks(example) ==
  SelectSeq(
    << [type |-> PROSE, content |-> example.description, language |-> <<>>,
        annotations |-> EmptyMap],
       [type |-> CODE, content |-> example.code, language |-> inferLanguage(example.code),
        annotations |-> EmptyMap],
       [type |-> DATA, content |-> example.dataSql, language |-> <<"sql">>,
        annotations |-> [type |-> <<"schema">>]],
       [type |-> DATA, content |-> example.response, language |-> <<"json">>,
        annotations |-> [type |-> <<"response">>]] >>,
    LAMBDA b : b.content # <<>>)

\* C15: convertOperation gives an OPERATION node whose blocks are PROSE(description),
\* PROSE(notes), each only when non-empty, and one ITEM child per example in source
\* order; an example's blocks are PROSE(description), CODE(code, inferred language),
\* DATA(dataSql, sql, type schema), DATA(response, json, type response), in that
\* order, each exactly when its field is non-empty.
C15_BlocksInFixedOrder ==
  (sourceKind = "convert" /\ pc = "converted") =>
    LET operation == specData.operations[1]
    IN /\ tree.type = OPERATION
       /\ tree.content
            = SelectSeq(<< [type |-> PROSE, content |-> operation.description,
                            language |-> <<>>, annotations |-> EmptyMap],
                           [type |-> PROSE, content |-> operation.notes,
                            language |-> <<>>, annotations |-> EmptyMap] >>,
                        LAMBDA b : b.content # <<>>)
       /\ Len(tree.children) = Len(operation.examples)
       /\ \A j \in 1..Len(operation.examples) :
            /\ tree.children[j].type = ITEM
            /\ tree.children[j].children = <<>>
            /\ tree.children[j].content = ExpectedExampleBlocks(operation.examples[j])

\* C15 witness: an operation with notes only and two examples, the first with all
\* four fields, the second with a response only
C15_Witness ==
  /\ sourceKind = "convert" /\ pc = "converted"
  /\ Len(tree.content) = 1 /\ tree.content[1].content = <<"n">>
  /\ Len(tree.children) = 2
  /\ Len(tree.children[1].content) = 4
  /\ Len(tree.children[2].content) = 1 /\ tree.children[2].content[1].language = <<"json">>

\* the tokens handed to buildSections
InputTokens == mdFiles[1].tokens

\* the positions of the headings among the first n tokens, in document order
HeadingPositions(n) ==
  SelectSeq([i \in 1..n |-> i], LAMBDA i : InputTokens[i].type = "heading")

\* the section that must be the parent of the k-th heading: the nearest heading before
\* it with a smaller level, 0 when there is none
NearestSmaller(hp, k) ==
  LET before == {j \in 1..(k - 1) : InputTokens[hp[j]].depth < InputTokens[hp[k]].depth}
  IN IF before = {} THEN 0 ELSE CHOOSE j \in before : \A i \in before : i <= j

\* the sections of a forest in pre-order
ForestPreorder(forest) == Below([children |-> forest])

\* C18: after every step of buildSections each heading consumed so far has exactly
\* one section, whose parent is the nearest preceding heading of smaller level (none:
\* a root section); the levels on the stack increase strictly from bottom to top;
\* a child's level exceeds its parent's; and the returned forest holds one section
\* per heading and its pre-order is the document order of the headings.
C18_StackRule ==
  (sourceKind = "sections") =>
    LET hp == HeadingPositions(pos)
        secs == build.secs
    IN /\ Len(secs) = Len(hp)
       /\ \A k \in 1..Len(hp) :
            /\ secs[k].level = InputTokens[hp[k]].depth
            /\ secs[k].title = InputTokens[hp[k]].text
            /\ secs[k].parent = NearestSmaller(hp, k)
            /\ secs[k].parent # 0 => secs[secs[k].parent].level < secs[k].level
       /\ \A i \in 1..(Len(build.stack) - 1) :
            secs[build.stack[i]].level < secs[build.stack[i + 1]].level
       /\ pc \in {"built", "converted"} =>
            LET walk == ForestPreorder(sections)
            IN /\ Len(walk) = Len(hp)
               /\ \A k \in 1..Len(hp) :
                    /\ walk[k].node.level = InputTokens[hp[k]].depth
                    /\ walk[k].node.title = InputTokens[hp[k]].text
                    /\ \A c \in 1..Len(walk[k].node.children) :
                         walk[k].node.children[c].level > walk[k].node.level
                    /\ Len(walk[k].path) = 1 <=> NearestSmaller(hp, k) = 0

\* C18 witness: H2, H3, H2 have been consumed: the stack has dropped back to one
\* section and the second H2 is a root section beside the first
C18_Witness ==
  /\ sourceKind = "sections" /\ pc = "built" /\ pos = 3
  /\ Len(build.secs) = 3 /\ Len(build.stack) = 1
  /\ build.secs[2].parent = 1 /\ build.secs[3].parent = 0
  /\ Len(sections) = 2 /\ Len(sections[1].children) = 1

\* the kind the policy gives a heading level
KindOfLevel(level, flag) ==
  IF level = 2 THEN (IF flag THEN CATEGORY ELSE SECTION)
  ELSE IF level = 3 THEN OPERATION
  ELSE IF level >= 4 THEN ITEM
  ELSE SECTION

ContentAfter(hp, k) ==
  LET from == hp[k] + 1
      to == IF k < Len(hp) THEN hp[k + 1] - 1 ELSE Len(InputTokens)
      kept == SelectSeq([i \in 1..(to - from + 1) |-> InputTokens[from + i - 1]],
                        LAMBDA t : tokenToContent(t) # NoContent)
  IN [i \in 1..Len(kept) |-> tokenToContent(kept[i])]

\* C19: when buildSections has returned, the content of each section is exactly the
\* converted content tokens between its heading and the next heading, in order.
\* (Fails: content before the first heading is put into the first section.)
C19_ContentBetweenHeadings ==
  (sourceKind = "sections" /\ pc \in {"built", "converted"}) =>
    LET hp == HeadingPositions(Len(InputTokens))
    IN \A k \in 1..Len(hp) : build.secs[k].content = ContentAfter(hp, k)

\* C19 case: a paragraph in front of the only heading has become that section's content
C19_Witness ==
  /\ sourceKind = "sections" /\ pc = "built"
  /\ Len(InputTokens) = 2 /\ InputTokens[1].type = "paragraph" /\ InputTokens[2].type = "heading"
  /\ Len(build.secs) = 1 /\ Len(build.secs[1].content) = 1
  /\ sections[1].content[1].content = InputTokens[1].text

\* C30: whenever detect without a hint, or with 'auto', returns a format, a registered
\* parser of that format was probed during the call and its probe answered true; a
\* format all of whose parsers answer false is never returned, and a path whose
\* extension stands for a format is not given that format unless a probe confirms it.
C30_DetectionSound ==
  (sourceKind = "detect" /\ pc = "done" /\ hint \in {"", AUTO}) =>
    /\ \E k \in 1..Len(probes) :
         /\ probes[k] \in 1..Len(parsers)
         /\ parsers[probes[k]].format = detected.format
         /\ ProbeSucceeds(probes[k])
    /\ \E i \in 1..Len(parsers) : parsers[i].format = detected.format /\ ProbeSucceeds(i)
    /\ (ExtensionFormat # "" /\ detected.format = ExtensionFormat) =>
         \E k \in 1..Len(probes) :
           parsers[probes[k]].format = ExtensionFormat /\ ProbeSucceeds(probes[k])

\* C30 witness: a.yml holds no marker, the OpenRef probe fails twice, the markdown
\* probe fails and the format returned is that of the parser registered afterwards
C30_Witness ==
  /\ sourceKind = "detect" /\ pc = "done" /\ hint = ""
  /\ sourcePath = <<"a", ".", "y", "m", "l">> /\ fsEntry.kind = "file"
  /\ probes = <<1, 1, 2, 3>> /\ detected.format = "asciidoc"

\* the marker stands entirely within the first n characters of what is at the path
MarkerWithin(marker, n) ==
  \E i \in 1..(n - Len(marker) + 1) :
    /\ i + Len(marker) - 1 <= Len(fsEntry.head)
    /\ SubSeq(fsEntry.head, i, i + Len(marker) - 1) = marker

\* the OpenRef probe was invoked during the call
OpenRefProbed == \E k \in 1..Len(probes) : probes[k] = 1

\* what the OpenRef probe answered: detect returns at the first probe that answers true
OpenRefAnswer == pc = "done" /\ probes[Len(probes)] = 1

\* C22 as stated: the OpenRef probe answers true exactly when the extension is yml
\* or yaml, the file exists and can be read, and its first 200 characters contain
\* "info:" or "functions:".  (Fails: the marker "id:" is accepted as well.)
C22_ProbeExactlyInfoOrFunctions ==
  (sourceKind = "detect" /\ pc # "start" /\ OpenRefProbed) =>
    (OpenRefAnswer <=>
       /\ ExtensionFormat = OPENREF
       /\ fsEntry.kind = "file"
       /\ (MarkerWithin(MarkerInfo, 200) \/ MarkerWithin(MarkerFunctions, 200)))

\* C22 amended: the OpenRef probe answers true exactly when the extension is yml or
\* yaml, the file exists and can be read, and its first 200 characters contain
\* "info:", "functions:" or "id:"; in every other case it answers false.
C22_ProbeExactlyInfoFunctionsOrId ==
  (sourceKind = "detect" /\ pc # "start" /\ OpenRefProbed) =>
    (OpenRefAnswer <=>
       /\ ExtensionFormat = OPENREF
       /\ fsEntry.kind = "file"
       /\ (MarkerWithin(MarkerInfo, 200) \/ MarkerWithin(MarkerFunctions, 200)
             \/ MarkerWithin(MarkerId, 200)))

\* C22 witness: "info:" starts at character 197 of a.yml, the 200 characters read end
\* in "info" and the probe answers false
C22_Witness ==
  /\ sourceKind = "detect" /\ pc # "start" /\ OpenRefProbed /\ ~OpenRefAnswer
  /\ sourcePath = <<"a", ".", "y", "m", "l">> /\ fsEntry.kind = "file"
  /\ Len(fsEntry.head) = 201 /\ SubSeq(fsEntry.head, 197, 201) = MarkerInfo

\* C22 case of the marker "id:": a.yml holds "id:" only and the probe answers true
C22_WitnessId ==
  /\ sourceKind = "detect" /\ pc = "done" /\ probes = <<1>>
  /\ sourcePath = <<"a", ".", "y", "m", "l">> /\ fsEntry.head = MarkerId

\* how many of the document's tokens convert to the content c
TimesInDocument(c) ==
  Cardinality({i \in 1..Len(InputTokens) :
                 InputTokens[i].type # "heading" /\ tokenToContent(InputTokens[i]) = c})

\* how many times the content c stands in the sections buildSections returned
TimesInSections(c) ==
  LET walk == ForestPreorder(sections)
  IN Cardinality({<<k, i>> \in (1..Len(walk)) \X (1..MaxTokens + 1) :
                    i <= Len(walk[k].node.content) /\ walk[k].node.content[i] = c})

\* C28: buildSections loses no content: every content token of the document stands
\* in exactly one returned section's content, also the tokens in front of the first
\* heading and those of a document without a heading.
\* (Fails: without a heading no section exists and all content is dropped.)
C28_NoContentLost ==
  (sourceKind = "sections" /\ pc \in {"built", "converted"}) =>
    \A i \in 1..Len(InputTokens) :
      LET c == tokenToContent(InputTokens[i])
      IN (InputTokens[i].type # "heading" /\ c # NoContent)
           => TimesInSections(c) = TimesInDocument(c)

\* C28 case: the document is one paragraph and buildSections returned no section
C28_Witness ==
  /\ sourceKind = "sections" /\ pc = "built"
  /\ Len(InputTokens) = 1 /\ InputTokens[1].type = "paragraph"
  /\ sections = <<>> /\ build.secs = <<>> /\ Len(build.currentContent) = 1

\* the content in front of the first heading is kept, in the first section
C28_PreambleKept ==
  (sourceKind = "sections" /\ pc \in {"built", "converted"} /\ sections # <<>>) =>
    \A i \in 1..Len(InputTokens) :
      LET c == tokenToContent(InputTokens[i])
      IN (InputTokens[i].type # "heading" /\ c # NoContent)
           => TimesInSections(c) = TimesInDocument(c)

\* C23: every node of every tree an adapter entry point returns has a type that is
\* one of the five values of DocNodeType.
\* (Fails for the top node of a single markdown file, whose type is the string 'SECTION'.)
C23_KindsClosed ==
  TreeBuilt =>
    \A k \in 1..Len(Preorder(tree, <<>>)) : Preorder(tree, <<>>)[k].node.type \in DocNodeType

\* C23 case: parseSingleFile has returned a tree whose top node's type is no value of
\* DocNodeType while every node below it has one
C23_Witness ==
  /\ sourceKind = "mdfile" /\ pc = "converted" /\ TreeBuilt
  /\ tree.type \notin DocNodeType /\ tree.type = SingleFileDocumentType
  /\ Len(Below(tree)) > 0
  /\ \A k \in 1..Len(Below(tree)) : Below(tree)[k].node.type \in DocNodeType

\* all trees but the one of a single markdown file keep to the enumeration
C23_KindsClosedButSingleFile ==
  (TreeBuilt /\ sourceKind # "mdfile") =>
    \A k \in 1..Len(Preorder(tree, <<>>)) : Preorder(tree, <<>>)[k].node.type \in DocNodeType

\* C27: every node heading of every output file, full or group, carries a non-empty
\* number path and between 2 and 4 '#' characters.
\* (Fails: a group file starts with the group's own heading "# . <title>".)
C27_HeadingsNumbered ==
  \A p \in DOMAIN files :
    \A h \in 1..Len(NodeHeadings(files[p])) :
      /\ NodeHeadings(files[p])[h].number # <<>>
      /\ NodeHeadings(files[p])[h].hashes \in 2..4

\* C27 case: the tree is rooted at ROOT, a group file has been written, and its first
\* node heading is the group's own, with one '#' and an empty number path
C27_Witness ==
  /\ sourceKind = "openref" /\ tree.type = ROOT /\ catIdx >= 2
  /\ pc \in {"modular", "done"}
  /\ LET group == tree.children[GroupPositions[catIdx - 1]]
         hs == NodeHeadings(files[OutputPath(options, group.id)])
     IN /\ Len(hs) >= 1
        /\ hs[1].hashes = 1 /\ hs[1].number = <<>> /\ hs[1].title = group.title
        /\ hs[1].wellFormed

\* in the full file of a tree rooted at ROOT every heading is numbered and has 2 to 4 '#'
C27_FullFileHeadingsNumbered ==
  (FullWritten /\ tree.type = ROOT) =>
    \A h \in 1..Len(NodeHeadings(FullFile)) :
      /\ NodeHeadings(FullFile)[h].number # <<>>
      /\ NodeHeadings(FullFile)[h].hashes \in 2..4

\* how many lines of the full file, between the heading of the k-th headed node and
\* the next heading, are the text
TimesUnderHeading(k, text) ==
  LET fl == Lines(FullFile)
      fh == HeadingLineIndices(fl)
      to == IF k < Len(fh) THEN fh[k + 1] - 1 ELSE Len(fl)
  IN Cardinality({i \in (fh[k] + 1)..to : fl[i] = text})

\* C26: the full file shows the non-empty description of a node converted from an
\* operation or an example exactly once under the node's heading.
\* (Fails: it is written twice, as the node's description and as its first PROSE block.)
C26_DescriptionOnce ==
  (FullWritten /\ sourceKind = "openref") =>
    \A k \in 1..Len(Below(tree)) :
      LET node == Below(tree)[k].node
      IN (node.type \in {OPERATION, ITEM} /\ node.description # <<>>)
           => TimesUnderHeading(k, node.description) = 1

\* C26 case: the first node of the full file is an operation with a description, which
\* stands on the second and on the fourth line below the operation's heading
C26_Witness ==
  /\ FullWritten /\ sourceKind = "openref" /\ Len(tree.children) >= 1
  /\ tree.children[1].type = OPERATION /\ tree.children[1].description # <<>>
  /\ tree.children[1].content[1].type = PROSE
  /\ tree.children[1].content[1].content = tree.children[1].description
  /\ LET fl == Lines(FullFile)
         h == HeadingLineIndices(fl)[1]
     IN /\ fl[h + 2] = tree.children[1].description
        /\ fl[h + 4] = tree.children[1].description
  /\ TimesUnderHeading(1, tree.children[1].description) = 2

\* the nodes below the top that were converted from a heading of the level
NodesOfLevel(level) ==
  SelectSeq(Below(tree),
            LAMBDA e : "level" \in DOMAIN e.node.metadata /\ e.node.metadata.level = level)

\* C29: the tree merged from a directory of markdown documents holds no CATEGORY
\* node at any depth, every level 2 heading being a SECTION, and rendering it writes
\* the full file and no other; in the tree of a single parsed file every level 2
\* heading is a CATEGORY.
C29_MergedTreeHasNoGroup ==
  /\ (sourceKind = "mddir" /\ TreeBuilt) =>
       /\ \A k \in 1..Len(Preorder(tree, <<>>)) : Preorder(tree, <<>>)[k].node.type # CATEGORY
       /\ \A k \in 1..Len(NodesOfLevel(2)) : NodesOfLevel(2)[k].node.type = SECTION
       /\ DOMAIN files \subseteq {OutputPath(options, <<"f", "u", "l", "l">>)}
       /\ pc = "done" => DOMAIN files = {OutputPath(options, <<"f", "u", "l", "l">>)}
       /\ pc # "modular"
  /\ (sourceKind = "mdfile" /\ TreeBuilt) =>
       \A k \in 1..Len(NodesOfLevel(2)) : NodesOfLevel(2)[k].node.type = CATEGORY

\* C29 witness: a document of the directory starts with a level 2 heading, its node
\* is a SECTION at depth 2 of the merged tree, and the render is over with one file
C29_Witness ==
  /\ sourceKind = "mddir" /\ pc = "done" /\ Cardinality(DOMAIN files) = 1
  /\ Len(tree.children) = 2 /\ Len(tree.children[1].children) >= 1
  /\ tree.children[1].children[1].metadata.level = 2
  /\ tree.children[1].children[1].type = SECTION

\* C29 witness of the contrast: the single file starts with a level 2 heading, its node
\* is a CATEGORY and a group file is written for it
C29_WitnessSingleFile ==
  /\ sourceKind = "mdfile" /\ pc = "done" /\ Cardinality(DOMAIN files) = 2
  /\ tree.children[1].metadata.level = 2 /\ tree.children[1].type = CATEGORY

\* C21: within one render call no two writes go to the same path, so no group file is
\* overwritten by a later group, and after a completed call the number of group files
\* is the number of CATEGORY children of the root.
\* (Fails: two CATEGORY children with the same id share one path.)
C21_GroupPathsDistinct ==
  /\ \A i, j \in 1..Len(ioLog) : i # j => ioLog[i] # ioLog[j]
  /\ pc = "done" => Cardinality(DOMAIN files) = 1 + GroupCount

\* C21 case: a single markdown file with two level 2 headings of the same title: both
\* groups were written to one path and the file holds the second group only
C21_Witness ==
  /\ sourceKind = "mdfile" /\ pc = "done" /\ GroupCount = 2
  /\ Len(tree.children) = 2 /\ tree.children[1].id = tree.children[2].id
  /\ tree.children[1] # tree.children[2]
  /\ Len(ioLog) = 3 /\ ioLog[2] = ioLog[3]
  /\ Cardinality(DOMAIN files) = 2
  /\ files[ioLog[3]] = categoryDocContent(tree, options, tree.children[2])
  /\ files[ioLog[3]] # categoryDocContent(tree, options, tree.children[1])

\* the trees converted from a spec with a category map have groups of distinct ids
C21_SpecGroupPathsDistinct ==
  (sourceKind = "openref") =>
    /\ \A i, j \in 1..Len(ioLog) : i # j => ioLog[i] # ioLog[j]
    /\ pc = "done" => Cardinality(DOMAIN files) = 1 + GroupCount

\* the code of the example handed to convertExample
ExampleCode == specData.operations[1].examples[1].code

\* the CODE block convertExample made of the code
ExampleCodeBlock ==
  CHOOSE b \in {tree.content[i] : i \in 1..Len(tree.content)} : b.type = CODE

\* the language tag inferLanguage gave the code
InferredLanguage == ExampleCodeBlock.language

\* one of the markers of a language occurs in the code
SomeMarkerOccurs ==
  \E m \in {KwConst, KwLet, KwAsync, KwFunc, KwDef, KwImport, KwFrom, KwPublicClass,
            KwPrivateVal, KwClass, KwUsing, KwVoid, KwFuture} : Includes(ExampleCode, m)

\* C25: inferLanguage tags a snippet containing "func " as swift, one containing
\* "def " as python and one containing "const " or "async " as javascript; it
\* returns "code" exactly when no marker of any language occurs, and the tag is
\* never empty.
\* (Fails: the tests run in a fixed order and "const ", "let " or "async " wins over
\* "func " and "def ".)
C25_MarkersDecideLanguage ==
  (sourceKind = "example" /\ pc = "converted" /\ ExampleCode # <<>>) =>
    /\ Includes(ExampleCode, KwFunc) => InferredLanguage = <<"swift">>
    /\ Includes(ExampleCode, KwDef) => InferredLanguage = <<"python">>
    /\ (Includes(ExampleCode, KwConst) \/ Includes(ExampleCode, KwAsync))
         => InferredLanguage = <<"javascript">>
    /\ InferredLanguage = <<"code">> <=> ~SomeMarkerOccurs
    /\ InferredLanguage # <<>>

\* C25 case: the code holds "func " and "let " and is tagged javascript
C25_Witness ==
  /\ sourceKind = "example" /\ pc = "converted"
  /\ ExampleCode = KwFunc \o KwLet
  /\ InferredLanguage = <<"javascript">>

\* what holds of inferLanguage: the first test that succeeds decides, "const " and
\* "async " always give javascript, and the tag is never empty
C25_FirstTestDecides ==
  (sourceKind = "example" /\ pc = "converted" /\ ExampleCode # <<>>) =>
    LET js == Includes(ExampleCode, KwConst) \/ Includes(ExampleCode, KwLet)
                \/ Includes(ExampleCode, KwAsync)
        swift == Includes(ExampleCode, KwFunc)
        python == Includes(ExampleCode, KwDef)
                    \/ (Includes(ExampleCode, KwImport) /\ Includes(ExampleCode, KwFrom))
    IN /\ js => InferredLanguage = <<"javascript">>
       /\ (~js /\ swift) => InferredLanguage = <<"swift">>
       /\ (~js /\ ~swift /\ python) => InferredLanguage = <<"python">>
       /\ ~SomeMarkerOccurs => InferredLanguage = <<"code">>
       /\ InferredLanguage # <<>>
       /\ ExampleCodeBlock.content = ExampleCode

\* the text holds an HTML comment: "<!--" with a "-->" after it
HasComment(text) ==
  \E i \in 1..Len(text) :
    /\ LitAt(text, i, LitCommentOpen)
    /\ \E k \in (i + 4)..Len(text) : LitAt(text, k, LitCommentClose)

\* the text holds a cross-reference tag: "<doc:", a non-empty inner text and ">"
HasDocTag(text) ==
  \E i \in 1..Len(text) :
    LitAt(text, i, LitDoc) /\ FirstIndex(text, i + Len(LitDoc), ">") > i + Len(LitDoc)

\* the text holds a block of the directive: its name, arguments in parentheses if any,
\* and a body in braces
HasDirectiveBlock(text, name) ==
  \E i \in 1..Len(text) :
    /\ LitAt(text, i, name)
    /\ LET a == i + Len(name)
           body == IF a <= Len(text) /\ text[a] = "("
                     THEN (IF FirstIndex(text, a + 1, ")") = 0 THEN 0
                           ELSE FirstIndex(text, a + 1, ")") + 1)
                     ELSE a
       IN body # 0 /\ bracedEnd(text, body) # 0

\* the plain characters of a text
PlainOf(text) == SelectSeq(text, LAMBDA c : c = "x")

\* C24: the text cleanDocCContent returns holds no HTML comment, no @Metadata and no
\* @Options directive block and no <doc:...> tag; the inner text of a cross-reference
\* is kept; and no run of three or more newlines remains.
\* (Fails: an @Options block without arguments, "@Options { ... }", is left in place.)
C24_CleanedOfDirectives ==
  (sourceKind = "clean" /\ pc = "cleaned") =>
    /\ ~HasComment(cleaned)
    /\ ~HasDirectiveBlock(cleaned, LitMetadata)
    /\ ~HasDirectiveBlock(cleaned, LitOptions)
    /\ ~HasDocTag(cleaned)
    /\ (~HasComment(rawContent) /\ ~Includes(rawContent, <<"@">>))
         => PlainOf(cleaned) = PlainOf(rawContent)
    /\ ~Includes(cleaned, <<"\n", "\n", "\n">>)

\* C24 case: the file is "@Options{}" and the text returned is the same
C24_Witness ==
  /\ sourceKind = "clean" /\ pc = "cleaned"
  /\ rawContent = LitOptions \o <<"{", "}">>
  /\ cleaned = rawContent

\* for texts of at most three pieces the @Options block without arguments is the only
\* failure; longer texts add tags that one pass puts together from nested ones
\* ("<doc:<doc:-->>" leaves "<doc:-->")
C24_CleanedButBareOptions ==
  (sourceKind = "clean" /\ pc = "cleaned") =>
    /\ ~HasComment(cleaned)
    /\ ~HasDirectiveBlock(cleaned, LitMetadata)
    /\ ~HasDirectiveBlock(cleaned, LitOptions \o <<"(">>)
    /\ ~HasDocTag(cleaned)
    /\ (~HasComment(rawContent) /\ ~Includes(rawContent, <<"@">>))
         => PlainOf(cleaned) = PlainOf(rawContent)
    /\ ~Includes(cleaned, <<"\n", "\n", "\n">>)

\* cases in which the cleaning acts: a tag gives way to its inner text, a comment and
\* a block are deleted, a run of three newlines becomes one blank line
C24_CasesReached ==
  /\ sourceKind = "clean" /\ pc = "cleaned"
  /\ \/ rawContent = LitDoc \o <<"x", ">">> /\ cleaned = <<"x">>
     \/ rawContent = <<"x", "\n", "\n", "\n", "x">> /\ cleaned = <<"x", "\n", "\n", "x">>

====
